---- MODULE Spec2Model ----
(***************************************************************************)
(* Watermelon chicken farm: the engine (src/unnamed/part_002), the farm    *)
(* and forest subsystems and the catalogs (src/unnamed/part_000) and the   *)
(* frame driver (src/components/Game.tsx) as a state machine.              *)
(*                                                                         *)
(* Every engine function is a pure transform GameState -> GameState; it is *)
(* modelled by an operator of the same name, and the clock reading         *)
(* Date.now() that the function takes is passed as the parameter `now`.    *)
(* An action applies one handler of the driver to the variable `state`.    *)
(*                                                                         *)
(* Number representation (JavaScript numbers are IEEE-754 doubles):        *)
(*  - clock readings and durations are integers, in milliseconds;          *)
(*  - eggs are counted in units of 1/EGG_SCALE egg and coins in units of   *)
(*    1/COIN_SCALE coin, which is exact for clock readings on the          *)
(*    STEP_MS grid and for the half-coin steps of the eggValue upgrade;    *)
(*  - an upgrade field holds the number k of `effect` additions made to    *)
(*    its base value, i.e. the double base (+) effect (+) ... (+) effect;  *)
(*    the level the code derives from that double and the price of a       *)
(*    level are tabulated from the double-precision evaluation of the      *)
(*    source expressions (FLOAT_LEVEL, FLOAT_COST);                        *)
(*  - growthProgress is a numerator over PROGRESS_ONE;                     *)
(*  - positions are in units of 1/POS_SCALE world unit;                    *)
(*  - zoom is an IEEE-754 double held exactly as << hi, lo >>, the value   *)
(*    being (hi * DOUBLE_WORD + lo) * 2^-56; sums are rounded to 53        *)
(*    significant bits, ties to even, as the hardware does.                *)
(***************************************************************************)
EXTENDS Integers, Sequences, FiniteSets, TLC

VARIABLES
    state,      \* gameStateRef.current: the GameState
    now,        \* the wall clock read by Date.now()
    perf,       \* the monotonic clock handed to requestAnimationFrame callbacks
    lastTime,   \* lastTimeRef.current (0 before the first frame)
    saved,      \* localStorage[SAVE_KEY]: Null or the document stored
    gameStateNull,  \* gameStateRef.current is null (state is then what it last was)
    skipSaveRef     \* skipSaveRef.current

vars == <<state, now, perf, lastTime, saved, gameStateNull, skipSaveRef>>

\* the refs of the Game component that only importSave writes
refs == <<gameStateNull, skipSaveRef>>

----------------------------------------------------------------------------
(* Bounds of the model *)

T0 == 100000          \* wall-clock reading at construction
MaxCoarse == 4        \* clock grid: coarse steps of COARSE_MS after T0
MaxFine == 1          \* clock grid: fine steps of STEP_MS after a coarse step
MaxPlots == 3         \* buyNewPlot is not explored beyond this many plots
MaxChickens == 2      \* buyNewChicken is not explored beyond this many chickens
MaxSkew == 1          \* wall-clock set-backs explored, in coarse steps

----------------------------------------------------------------------------
(* Catalogs: src/unnamed/part_000 lines 1-189 *)

SEED_TYPES == {"basic", "silver", "gold", "crystal"}

SEED_CONFIGS ==
    [basic   |-> [growTime |-> 30,  yield |-> 1,  unlockCost |-> 0],
     silver  |-> [growTime |-> 60,  yield |-> 3,  unlockCost |-> 100],
     gold    |-> [growTime |-> 120, yield |-> 8,  unlockCost |-> 500],
     crystal |-> [growTime |-> 300, yield |-> 25, unlockCost |-> 2000]]

CHICKEN_CONFIGS ==
    [basic  |-> [eggsPerMinute |-> 1,  feedDuration |-> 60,  upgradeCost |-> 0],
     fat    |-> [eggsPerMinute |-> 3,  feedDuration |-> 90,  upgradeCost |-> 200],
     golden |-> [eggsPerMinute |-> 10, feedDuration |-> 120, upgradeCost |-> 1000],
     cosmic |-> [eggsPerMinute |-> 50, feedDuration |-> 180, upgradeCost |-> 5000]]

\* effect100 and base are the `effect` and the base value of the upgrade,
\* the former in hundredths; costMultiplier10 is costMultiplier in tenths.
UPGRADE_DEFINITIONS ==
    << [id |-> "seedBagCapacity", baseCost |-> 50,  costMultiplier10 |-> 15,
        maxLevel |-> 10, effect100 |-> 500],
       [id |-> "walkingSpeed",    baseCost |-> 75,  costMultiplier10 |-> 18,
        maxLevel |-> 8,  effect100 |-> 20],
       [id |-> "plotFertility",   baseCost |-> 100, costMultiplier10 |-> 20,
        maxLevel |-> 10, effect100 |-> 15],
       [id |-> "chickenHunger",   baseCost |-> 80,  costMultiplier10 |-> 16,
        maxLevel |-> 10, effect100 |-> 20],
       [id |-> "eggValue",        baseCost |-> 150, costMultiplier10 |-> 22,
        maxLevel |-> 15, effect100 |-> 50] >>

UPGRADE_IDS == {UPGRADE_DEFINITIONS[i].id : i \in DOMAIN UPGRADE_DEFINITIONS}

PLAYER_SIZE == 24
FOREST_WIDTH == 1600
FOREST_HEIGHT == 1200
FARM_WIDTH == 800
FARM_HEIGHT == 600
SEED_RESPAWN_TIME == 15
EGG_TO_COIN_RATE == 1
PLOT_COST == 100
CHICKEN_COST == 150
MAX_DELTA_TIME == 100      \* Game.tsx: Math.min(currentTime - lastTime, 100)

----------------------------------------------------------------------------
(* Units *)

STEP_MS == MAX_DELTA_TIME \div 2          \* grid of the clock readings
COARSE_MS == SEED_RESPAWN_TIME * 1000
EGG_SCALE == 60000 \div STEP_MS           \* egg units per egg
COIN_SCALE == 2 * EGG_SCALE               \* coin units per coin
POS_SCALE == 1 + 1                        \* position units per world unit
PROGRESS_ONE == 300 * 1000 * 20           \* growthProgress = 1

Min(a, b) == IF a <= b THEN a ELSE b
Max(a, b) == IF a >= b THEN a ELSE b

\* Option values: null is the empty sequence, a value v is <<v>>.
\* Doubles between 1/4 and 4 as exact multiples of 2^-56, split into two
\* words so that each fits a 32-bit integer.
DOUBLE_WORD == 268435456
DOUBLE_HALF == << 134217728, 0 >>
DOUBLE_ONE == << 268435456, 0 >>
DOUBLE_TWO == << 536870912, 0 >>
\* the double written 0.1, 0x1.999999999999ap-4
DOUBLE_TENTH == << 26843545, 161061274 >>

\* carries between the words
DoubleNorm(hi, lo) == << hi + lo \div DOUBLE_WORD, lo % DOUBLE_WORD >>

DoubleLess(a, b) == a[1] < b[1] \/ (a[1] = b[1] /\ a[2] < b[2])

\* the spacing of the doubles in the binade of a value with high word hi
DoubleUlp(hi) ==
    IF hi < 67108864 THEN 2
    ELSE IF hi < 134217728 THEN 4
    ELSE IF hi < 268435456 THEN 8
    ELSE IF hi < 536870912 THEN 16
    ELSE 32

\* round to nearest, ties to even
DoubleRound(v) ==
    LET ulp == DoubleUlp(v[1])
        q == v[2] \div ulp
        r == v[2] % ulp
        up == 2 * r > ulp \/ (2 * r = ulp /\ q % 2 = 1)
    IN  DoubleNorm(v[1], (IF up THEN q + 1 ELSE q) * ulp)

\* a + sign * b in double arithmetic, sign being -1, 0 or 1
DoubleAdd(a, sign, b) == DoubleRound(DoubleNorm(a[1] + sign * b[1], a[2] + sign * b[2]))

DoubleMin(a, b) == IF DoubleLess(b, a) THEN b ELSE a
DoubleMax(a, b) == IF DoubleLess(a, b) THEN b ELSE a

Null == << >>
Some(v) == << v >>

----------------------------------------------------------------------------
(* Upgrades *)

\* The base value of an upgrade: buyUpgrade, `id === 'seedBagCapacity' ? 10 : 1`.
UpgradeBase(id) == IF id = "seedBagCapacity" THEN 10 ELSE 1

\* Math.floor((value - base) / effect) evaluated in doubles, where value is
\* base with effect added k times in doubles; entry k+1 is for k additions.
\* 1 + 0.2 gives 1.2 and (1.2 - 1) / 0.2 gives 0.9999999999999998, so the
\* level lags one purchase behind for the 0.2 and 0.15 steps; for 0.2 it
\* catches up at 2.6, where (2.6 - 1) / 0.2 gives 8.
FLOAT_LEVEL ==
    [seedBagCapacity |-> <<0, 1, 2, 3, 4, 5, 6, 7, 8, 9, 10, 11, 12, 13, 14, 15, 16, 17, 18>>,
     walkingSpeed    |-> <<0, 0, 1, 2, 3, 4, 5, 6, 8, 9, 10, 11, 12, 13, 14, 15, 16, 17, 18>>,
     plotFertility   |-> <<0, 0, 1, 2, 3, 4, 5, 6, 7, 8, 9, 10, 11, 12, 13, 14, 15, 16, 17>>,
     chickenHunger   |-> <<0, 0, 1, 2, 3, 4, 5, 6, 8, 9, 10, 11, 12, 13, 14, 15, 16, 17, 18>>,
     eggValue        |-> <<0, 1, 2, 3, 4, 5, 6, 7, 8, 9, 10, 11, 12, 13, 14, 15, 16, 17, 18>>]

\* Math.floor(baseCost * Math.pow(costMultiplier, level)) evaluated in
\* doubles; entry level+1 is the price at `level`.
FLOAT_COST ==
    [seedBagCapacity |-> <<50, 75, 112, 168, 253, 379, 569, 854, 1281, 1922, 2883,
                           4324, 6487, 9730, 14596, 21894, 32842, 49263, 73894>>,
     walkingSpeed    |-> <<75, 135, 243, 437, 787, 1417, 2550, 4591, 8264, 14876, 26778,
                           48201, 86762, 156172, 281110, 505998, 910796, 1639433, 2950980>>,
     plotFertility   |-> <<100, 200, 400, 800, 1600, 3200, 6400, 12800, 25600, 51200, 102400,
                           204800, 409600, 819200, 1638400, 3276800, 6553600, 13107200, 26214400>>,
     chickenHunger   |-> <<80, 128, 204, 327, 524, 838, 1342, 2147, 3435, 5497, 8796,
                           14073, 22517, 36028, 57646, 92233, 147573, 236118, 377789>>,
     eggValue        |-> <<150, 330, 726, 1597, 3513, 7730, 17006, 37415, 82313, 181090, 398398,
                           876477, 1928250, 4242150, 9332731, 20532010, 45170422, 99374929,
                           218624844>>]

\* buyUpgrade: const currentLevel = Math.floor((upgrades[id] - base) / effect)
currentLevel(upgradeDef, upgrades) == FLOAT_LEVEL[upgradeDef.id][upgrades[upgradeDef.id] + 1]

\* buyUpgrade: const cost = Math.floor(baseCost * Math.pow(costMultiplier, currentLevel))
upgradeCost(upgradeDef, level) == FLOAT_COST[upgradeDef.id][level + 1]

\* The value of an upgrade field in hundredths (the double differs from it
\* by rounding in the last place only).
UpgradeValue100(id, upgrades) ==
    LET def == CHOOSE d \in {UPGRADE_DEFINITIONS[i] : i \in DOMAIN UPGRADE_DEFINITIONS} : d.id = id
    IN  UpgradeBase(id) * 100 + upgrades[id] * def.effect100

\* Fault variant of CannotAfford: the affordability test is left out.
CannotAfford_Never(coins, cost) == FALSE

\* coins < cost, for coins in coin units and an integer price in coins
CannotAfford(coins, cost) == coins \div COIN_SCALE < cost

----------------------------------------------------------------------------
(* Farm subsystem: src/unnamed/part_000 lines 191-518 *)

P(v) == v * POS_SCALE

RECURSIVE SumSeq(_)
SumSeq(s) == IF s = << >> THEN 0 ELSE Head(s) + SumSeq(Tail(s))

\* A plot as initializeFarm and buyPlot lay it out; ids count from 0.
\* plantedAt: null is written 0 (every read of plantedAt in the source is the
\* truthiness test `!plot.plantedAt`, which null and 0 both pass).
NewPlot(i) ==
    [id |-> i, planted |-> FALSE, seedType |-> "null", plantedAt |-> 0,
     growthProgress |-> 0, fertilityLevel |-> 1,
     x |-> P(100 + (i % 4) * 60), y |-> P(150 + (i \div 4) * 60)]

initializeFarm ==
    [plots |-> << NewPlot(0), NewPlot(1) >>,
     chickens |-> << [id |-> 0, type |-> "basic", fedUntil |-> 0, eggsProduced |-> 0,
                      x |-> P(500), y |-> P(200)] >>]

\* Fault variant of Growth: progress is accumulated, one frame's worth per
\* tick, instead of being recomputed from the elapsed time.
Growth_Incremental(plot, upgrades, clock) ==
    Min(PROGRESS_ONE,
        plot.growthProgress
            + STEP_MS * plot.fertilityLevel
                  * (UpgradeValue100("plotFertility", upgrades) \div 5)
                  * (300 \div SEED_CONFIGS[plot.seedType].growTime))

\* updateFarm: Math.min(1, elapsed / growTime) with
\* growTime = seedConfig.growTime / (plot.fertilityLevel * upgrades.plotFertility)
\* and elapsed = (now - plot.plantedAt) / 1000, as a numerator over
\* PROGRESS_ONE.  fertilityLevel * plotFertility >= 1, so the quotient is at
\* least 1 once elapsed reaches the catalog grow time; that case is decided
\* first to keep the product small.
Growth(plot, upgrades, clock) ==
    LET growMs == SEED_CONFIGS[plot.seedType].growTime * 1000
        elapsedMs == clock - plot.plantedAt
    IN  IF elapsedMs >= growMs THEN PROGRESS_ONE
        ELSE Min(PROGRESS_ONE,
                 elapsedMs * plot.fertilityLevel
                     * (UpgradeValue100("plotFertility", upgrades) \div 5)
                     * (300 \div SEED_CONFIGS[plot.seedType].growTime))

\* The plots.map of updateFarm.
GrowPlots(plots, upgrades, clock) ==
    [i \in DOMAIN plots |->
        IF ~plots[i].planted \/ plots[i].seedType = "null" \/ plots[i].plantedAt = 0
        THEN plots[i]
        ELSE [plots[i] EXCEPT !.growthProgress = Growth(plots[i], upgrades, clock)]]

\* Fault variant of IsFed: the instant fedUntil itself counts as fed.
IsFed_Inclusive(chicken, clock) == clock <= chicken.fedUntil

\* if (now < chicken.fedUntil)
IsFed(chicken, clock) == clock < chicken.fedUntil

\* (config.eggsPerMinute / 60) * deltaSeconds, in egg units
EggsThisTick(chicken, deltaTime) ==
    CHICKEN_CONFIGS[chicken.type].eggsPerMinute * (deltaTime \div STEP_MS)

\* totalEggsProduced * EGG_TO_COIN_RATE * upgrades.eggValue, in coin units
CoinsFor(eggs, upgrades) ==
    (eggs * EGG_TO_COIN_RATE * UpgradeValue100("eggValue", upgrades) * 2) \div 100

updateFarm(farm, upgrades, deltaTime, clock) ==
    LET laid == [i \in DOMAIN farm.chickens |->
                    IF IsFed(farm.chickens[i], clock)
                    THEN EggsThisTick(farm.chickens[i], deltaTime) ELSE 0]
        updatedChickens ==
            [i \in DOMAIN farm.chickens |->
                IF IsFed(farm.chickens[i], clock)
                THEN [farm.chickens[i] EXCEPT !.eggsProduced = @ + laid[i]]
                ELSE farm.chickens[i]]
        totalEggsProduced == SumSeq(laid)
    IN  [farm |-> [farm EXCEPT !.plots = GrowPlots(farm.plots, upgrades, clock),
                               !.chickens = updatedChickens],
         eggsProduced |-> totalEggsProduced,
         coinsEarned |-> CoinsFor(totalEggsProduced, upgrades)]

plantSeed(farm, plotId, seedType, clock) ==
    [farm EXCEPT !.plots =
        [i \in DOMAIN farm.plots |->
            IF farm.plots[i].id = plotId /\ ~farm.plots[i].planted
            THEN [farm.plots[i] EXCEPT !.planted = TRUE, !.seedType = seedType,
                                       !.plantedAt = clock, !.growthProgress = 0]
            ELSE farm.plots[i]]]

\* Fault variant of Harvestable: the maturity test is left out.
Harvestable_NoMaturity(plot, plotId) ==
    /\ plot.id = plotId
    /\ plot.planted
    /\ plot.seedType # "null"

\* if (plot.id === plotId && plot.planted && plot.growthProgress >= 1 && plot.seedType)
Harvestable(plot, plotId) ==
    /\ plot.id = plotId
    /\ plot.planted
    /\ plot.growthProgress >= PROGRESS_ONE
    /\ plot.seedType # "null"

\* Fault variant of harvestPlot: one watermelon whatever the seed type.
harvestPlot_UnitYield(farm, plotId) ==
    LET hit == {i \in DOMAIN farm.plots : Harvestable(farm.plots[i], plotId)}
    IN  [farm |-> [farm EXCEPT !.plots =
                     [i \in DOMAIN farm.plots |->
                        IF i \in hit
                        THEN [farm.plots[i] EXCEPT !.planted = FALSE, !.seedType = "null",
                                                   !.plantedAt = 0, !.growthProgress = 0]
                        ELSE farm.plots[i]]],
         watermelons |-> IF hit = {} THEN 0 ELSE 1]

harvestPlot(farm, plotId) ==
    LET hit == {i \in DOMAIN farm.plots : Harvestable(farm.plots[i], plotId)}
    IN  [farm |-> [farm EXCEPT !.plots =
                     [i \in DOMAIN farm.plots |->
                        IF i \in hit
                        THEN [farm.plots[i] EXCEPT !.planted = FALSE, !.seedType = "null",
                                                   !.plantedAt = 0, !.growthProgress = 0]
                        ELSE farm.plots[i]]],
         \* the assignment of the last matching plot in the map stands
         watermelons |-> IF hit = {} THEN 0
                         ELSE SEED_CONFIGS[farm.plots[CHOOSE i \in hit :
                                  \A j \in hit : j <= i].seedType].yield]

\* config.feedDuration * upgrades.chickenHunger * 1000, in ms
FeedDurationMs(chicken, upgrades) ==
    CHICKEN_CONFIGS[chicken.type].feedDuration * UpgradeValue100("chickenHunger", upgrades) * 10

\* Fault variant of feedChicken: the feed time is added to what is left.
feedChicken_Stacks(farm, chickenId, upgrades, clock) ==
    [farm |-> [farm EXCEPT !.chickens =
                 [i \in DOMAIN farm.chickens |->
                    IF farm.chickens[i].id = chickenId
                    THEN [farm.chickens[i] EXCEPT
                            !.fedUntil = Max(@, clock) + FeedDurationMs(farm.chickens[i], upgrades)]
                    ELSE farm.chickens[i]]],
     watermelonsUsed |-> IF \E i \in DOMAIN farm.chickens : farm.chickens[i].id = chickenId
                         THEN 1 ELSE 0]

feedChicken(farm, chickenId, upgrades, clock) ==
    [farm |-> [farm EXCEPT !.chickens =
                 [i \in DOMAIN farm.chickens |->
                    IF farm.chickens[i].id = chickenId
                    THEN [farm.chickens[i] EXCEPT
                            !.fedUntil = clock + FeedDurationMs(farm.chickens[i], upgrades)]
                    ELSE farm.chickens[i]]],
     watermelonsUsed |-> IF \E i \in DOMAIN farm.chickens : farm.chickens[i].id = chickenId
                         THEN 1 ELSE 0]

buyPlot(farm) == [farm EXCEPT !.plots = Append(farm.plots, NewPlot(Len(farm.plots)))]

\* Fault variant of buyChicken: the new chicken gets the id of the last one.
buyChicken_ReusesId(farm) ==
    LET newId == Len(farm.chickens)
    IN  [farm EXCEPT !.chickens =
            Append(farm.chickens,
                   [id |-> newId - 1, type |-> "basic", fedUntil |-> 0, eggsProduced |-> 0,
                    x |-> P(450 + (newId % 3) * 50), y |-> P(150 + (newId \div 3) * 50)])]

buyChicken(farm) ==
    LET newId == Len(farm.chickens)
    IN  [farm EXCEPT !.chickens =
            Append(farm.chickens,
                   [id |-> newId, type |-> "basic", fedUntil |-> 0, eggsProduced |-> 0,
                    x |-> P(450 + (newId % 3) * 50), y |-> P(150 + (newId \div 3) * 50)])]

typeOrder == << "basic", "fat", "golden", "cosmic" >>

TypeIndex(type) == CHOOSE n \in DOMAIN typeOrder : typeOrder[n] = type

\* if (currentIndex < typeOrder.length - 1)
CanUpgrade(chicken, chickenId) ==
    chicken.id = chickenId /\ TypeIndex(chicken.type) < Len(typeOrder)

\* Fault variant of upgradeChicken: the upgraded chicken starts over, unfed
\* and with no eggs counted.
upgradeChicken_StartsOver(farm, chickenId) ==
    LET hit == {i \in DOMAIN farm.chickens : CanUpgrade(farm.chickens[i], chickenId)}
        nextType(i) == typeOrder[TypeIndex(farm.chickens[i].type) + 1]
    IN  [farm |-> [farm EXCEPT !.chickens =
                     [i \in DOMAIN farm.chickens |->
                        IF i \in hit
                        THEN [farm.chickens[i] EXCEPT !.type = nextType(i), !.fedUntil = 0,
                                                      !.eggsProduced = 0]
                        ELSE farm.chickens[i]]],
         cost |-> IF hit = {} THEN 0
                  ELSE CHICKEN_CONFIGS[nextType(CHOOSE i \in hit : \A j \in hit : j <= i)].upgradeCost,
         success |-> hit # {}]

upgradeChicken(farm, chickenId) ==
    LET hit == {i \in DOMAIN farm.chickens : CanUpgrade(farm.chickens[i], chickenId)}
        nextType(i) == typeOrder[TypeIndex(farm.chickens[i].type) + 1]
    IN  [farm |-> [farm EXCEPT !.chickens =
                     [i \in DOMAIN farm.chickens |->
                        IF i \in hit THEN [farm.chickens[i] EXCEPT !.type = nextType(i)]
                        ELSE farm.chickens[i]]],
         cost |-> IF hit = {} THEN 0
                  ELSE CHICKEN_CONFIGS[nextType(CHOOSE i \in hit : \A j \in hit : j <= i)].upgradeCost,
         success |-> hit # {}]

\* distance <= 50, on squares
Within(x1, y1, x2, y2, radius) ==
    (x1 - x2) * (x1 - x2) + (y1 - y2) * (y1 - y2) <= P(radius) * P(radius)

\* The first element of s that satisfies Test, or null.
First(s, Test(_)) ==
    LET hits == {i \in DOMAIN s : Test(s[i])}
    IN  IF hits = {} THEN Null ELSE Some(s[CHOOSE i \in hits : \A j \in hits : i <= j])

getNearbyPlot(farm, playerX, playerY) ==
    LET near(plot) == Within(plot.x + P(24), plot.y + P(24), playerX, playerY, 50)
    IN  First(farm.plots, near)

\* Fault variant of getNearbyChicken: the radius is 500.
getNearbyChicken_WideRadius(farm, playerX, playerY) ==
    LET near(chicken) == Within(chicken.x + P(16), chicken.y + P(16), playerX, playerY, 500)
    IN  First(farm.chickens, near)

getNearbyChicken(farm, playerX, playerY) ==
    LET near(chicken) == Within(chicken.x + P(16), chicken.y + P(16), playerX, playerY, 50)
    IN  First(farm.chickens, near)

\* const maxOfflineTime = 24 * 60 * 60 * 1000
MAX_OFFLINE_TIME == 24 * 60 * 60 * 1000

\* Fault variant of FedTimeDuringOffline: flat accrual over the offline time.
FedTimeDuringOffline_Flat(chicken, lastUpdate, cappedOfflineTime) == cappedOfflineTime

\* fedTimeRemaining = Math.max(0, chicken.fedUntil - lastUpdate);
\* fedTimeDuringOffline = Math.min(fedTimeRemaining, cappedOfflineTime)
FedTimeDuringOffline(chicken, lastUpdate, cappedOfflineTime) ==
    Min(Max(0, chicken.fedUntil - lastUpdate), cappedOfflineTime)

\* (config.eggsPerMinute / 60000) * fedTimeDuringOffline, in egg units
EggsOffline(chicken, fedTime) ==
    (CHICKEN_CONFIGS[chicken.type].eggsPerMinute * fedTime) \div STEP_MS

\* Fault variant of OfflineGrowPlots: the plots do not grow while the game
\* is closed.
OfflineGrowPlots_KeepsProgress(plots, upgrades, clock) == plots

\* The plots.map of calculateOfflineProgress:
\*   growTime = seedConfig.growTime / (plot.fertilityLevel * upgrades.plotFertility)
\*   elapsed = (now - plot.plantedAt) / 1000
\*   progress = Math.min(1, elapsed / growTime)
\* as a numerator over PROGRESS_ONE; now is the clock reading at load time,
\* not lastUpdate plus the capped offline time.
OfflineGrowPlots(plots, upgrades, clock) ==
    [i \in DOMAIN plots |->
        IF ~plots[i].planted \/ plots[i].seedType = "null" \/ plots[i].plantedAt = 0
        THEN plots[i]
        ELSE LET growMs == SEED_CONFIGS[plots[i].seedType].growTime * 1000
                 elapsedMs == clock - plots[i].plantedAt
                 progress ==
                     IF elapsedMs >= growMs THEN PROGRESS_ONE
                     ELSE Min(PROGRESS_ONE,
                              elapsedMs * plots[i].fertilityLevel
                                  * (UpgradeValue100("plotFertility", upgrades) \div 5)
                                  * (300 \div SEED_CONFIGS[plots[i].seedType].growTime))
             IN  [plots[i] EXCEPT !.growthProgress = progress]]

calculateOfflineProgress(farm, upgrades, lastUpdate, clock) ==
    LET offlineTime == clock - lastUpdate
        cappedOfflineTime == Min(offlineTime, MAX_OFFLINE_TIME)
        laid == [i \in DOMAIN farm.chickens |->
                    EggsOffline(farm.chickens[i],
                                FedTimeDuringOffline(farm.chickens[i], lastUpdate,
                                                     cappedOfflineTime))]
        totalEggsProduced == SumSeq(laid)
    IN  [farm |-> [farm EXCEPT
                     !.plots = OfflineGrowPlots(farm.plots, upgrades, clock),
                     !.chickens = [i \in DOMAIN farm.chickens |->
                                     [farm.chickens[i] EXCEPT !.eggsProduced = @ + laid[i]]]],
         eggsProduced |-> totalEggsProduced,
         coinsEarned |-> CoinsFor(totalEggsProduced, upgrades)]

----------------------------------------------------------------------------
(* Forest subsystem: src/unnamed/part_000 lines 520-717 *)

\* getSeedTypeForPosition: the types the draw Math.random() can give at a
\* position.  normalizedDistance > 0.8 and > 0.5 are compared on squares:
\* maxDistance^2 = 800^2 + 600^2, so the rings start at 800 and 500 units.
SeedTypesAt(x, y) ==
    LET cx == P(FOREST_WIDTH \div 2)
        cy == P(FOREST_HEIGHT \div 2)
        d2 == (x - cx) * (x - cx) + (y - cy) * (y - cy)
    IN  IF d2 > P(500) * P(500) THEN {"crystal", "gold", "silver", "basic"}
        ELSE {"gold", "silver", "basic"}

\* The layouts explored: initializeForest draws 40 trees and 60 bushes at
\* random outside the centre; the model places these trees and bushes.
TREE_SITES == << [x |-> P(800), y |-> P(460), size |-> 1] >>
BUSH_SITES ==
    << [x |-> P(900), y |-> P(600)], [x |-> P(1310), y |-> P(600)],
       [x |-> P(930), y |-> P(600)] >>

\* types[i] is the type drawn for the seed of bush i
initializeForest(types) ==
    [trees |-> TREE_SITES,
     bushes |-> BUSH_SITES,
     seeds |-> [i \in DOMAIN BUSH_SITES |->
                  [id |-> i - 1, type |-> types[i], x |-> BUSH_SITES[i].x,
                   y |-> BUSH_SITES[i].y, respawnTime |-> 0, collected |-> FALSE]]]

\* if (seed.collected && seed.respawnTime <= now)
\* Fault variant of Respawns: the deadline itself is too early.
Respawns_Strict(seed, clock) == seed.collected /\ seed.respawnTime < clock

Respawns(seed, clock) == seed.collected /\ seed.respawnTime <= clock

\* roll[i] is the type drawn for seed i if it respawns
updateForest(forest, clock, roll) ==
    [forest EXCEPT !.seeds =
        [i \in DOMAIN forest.seeds |->
            IF Respawns(forest.seeds[i], clock)
            THEN [forest.seeds[i] EXCEPT !.collected = FALSE, !.type = roll[i]]
            ELSE forest.seeds[i]]]

InSeq(s, v) == \E i \in DOMAIN s : s[i] = v

\* Fault variant of collectSeed: the type of the seed is not looked at.
collectSeed_IgnoresLock(forest, playerX, playerY, unlockedSeeds, clock) ==
    LET ok(seed) == /\ ~seed.collected
                    /\ Within(seed.x, seed.y, playerX, playerY, 40)
        collectedSeed == First(forest.seeds, ok)
    IN  [forest |-> [forest EXCEPT !.seeds =
                       [i \in DOMAIN forest.seeds |->
                          IF collectedSeed # Null /\ forest.seeds[i].id = collectedSeed[1].id
                          THEN [forest.seeds[i] EXCEPT
                                  !.collected = TRUE,
                                  !.respawnTime = clock + SEED_RESPAWN_TIME * 1000]
                          ELSE forest.seeds[i]]],
         collectedSeed |-> collectedSeed]

\* Fault variant of collectSeed: every seed in range is collected, not the
\* first one only.
collectSeed_EveryNearby(forest, playerX, playerY, unlockedSeeds, clock) ==
    LET ok(seed) == /\ ~seed.collected
                    /\ InSeq(unlockedSeeds, seed.type)
                    /\ Within(seed.x, seed.y, playerX, playerY, 40)
    IN  [forest |-> [forest EXCEPT !.seeds =
                       [i \in DOMAIN forest.seeds |->
                          IF ok(forest.seeds[i])
                          THEN [forest.seeds[i] EXCEPT
                                  !.collected = TRUE,
                                  !.respawnTime = clock + SEED_RESPAWN_TIME * 1000]
                          ELSE forest.seeds[i]]],
         collectedSeed |-> First(forest.seeds, ok)]

collectSeed(forest, playerX, playerY, unlockedSeeds, clock) ==
    LET ok(seed) == /\ ~seed.collected
                    /\ InSeq(unlockedSeeds, seed.type)
                    /\ Within(seed.x, seed.y, playerX, playerY, 40)
        collectedSeed == First(forest.seeds, ok)
    IN  [forest |-> [forest EXCEPT !.seeds =
                       [i \in DOMAIN forest.seeds |->
                          IF collectedSeed # Null /\ forest.seeds[i].id = collectedSeed[1].id
                          THEN [forest.seeds[i] EXCEPT
                                  !.collected = TRUE,
                                  !.respawnTime = clock + SEED_RESPAWN_TIME * 1000]
                          ELSE forest.seeds[i]]],
         collectedSeed |-> collectedSeed]

\* distance < radius + trunkRadius, on squares; the trunk is at (tree.x, tree.y + 20)
checkTreeCollision(forest, x, y, radius) ==
    \E i \in DOMAIN forest.trees :
        LET tree == forest.trees[i]
            reach == P(radius) + P(10 + tree.size * 5)
        IN  (tree.x - x) * (tree.x - x) + (tree.y + P(20) - y) * (tree.y + P(20) - y)
                < reach * reach

getNearbySeed(forest, playerX, playerY, unlockedSeeds) ==
    LET ok(seed) == /\ ~seed.collected
                    /\ InSeq(unlockedSeeds, seed.type)
                    /\ Within(seed.x, seed.y, playerX, playerY, 50)
    IN  First(forest.seeds, ok)

----------------------------------------------------------------------------
(* Engine: src/unnamed/part_002 *)

createInitialState(forest, clock) ==
    [player |-> [x |-> P(FOREST_WIDTH \div 2), y |-> P(FOREST_HEIGHT \div 2), speed |-> 150,
                 seeds |-> [t \in SEED_TYPES |-> 0],
                 watermelons |-> 0, coins |-> 50 * COIN_SCALE, eggs |-> 0],
     forest |-> forest,
     farm |-> initializeFarm,
     upgrades |-> [id \in UPGRADE_IDS |-> 0],
     currentArea |-> "forest",
     lastUpdate |-> clock,
     unlockedSeeds |-> << "basic" >>,
     totalCoinsEarned |-> 0,
     zoom |-> DOUBLE_ONE]

\* JSON.stringify of a GameState: the state holds finite numbers, strings,
\* booleans, null, arrays and plain objects only, each of which the text
\* carries exactly; the document records that it is JSON text.
JSON_stringify(value) == [format |-> "json", value |-> value]

\* JSON.parse: the value of a JSON text, Null where it throws.
JSON_parse(document) ==
    IF document.format = "json" THEN Some(document.value) ELSE Null

\* Texts that saveGame does not write: a file bearing the tag of importSave
\* (no JSON text starts with W), the JSON text {"other":0}, and any other text
WF1_TEXT == [format |-> "wf1", value |-> [text |-> "WF1:"]]
OTHER_JSON == [format |-> "json", value |-> [other |-> 0]]
OTHER_TEXT == [format |-> "other", value |-> [text |-> "save"]]

\* saveData.startsWith('WF1:')
StartsWithWF1(document) == document.format = "wf1"

\* state.farm, state.player and state.upgrades can be read without a TypeError
HasGameFields(value) == {"farm", "player", "upgrades", "lastUpdate"} \subseteq DOMAIN value

\* saveGame: the new content of localStorage[SAVE_KEY]
saveGame(s, clock) == Some(JSON_stringify([s EXCEPT !.lastUpdate = clock]))

\* Fault variant of loadGame: the returned state keeps the stored lastUpdate.
loadGame_KeepsStamp(storage, clock) ==
    IF storage = Null THEN Null
    ELSE IF JSON_parse(storage[1]) = Null THEN Null
    ELSE IF ~HasGameFields(JSON_parse(storage[1])[1]) THEN Null
    ELSE LET s == JSON_parse(storage[1])[1]
             offline == calculateOfflineProgress(s.farm, s.upgrades, s.lastUpdate, clock)
         IN  Some([s EXCEPT !.farm = offline.farm,
                            !.player.eggs = @ + offline.eggsProduced,
                            !.player.coins = @ + offline.coinsEarned])

\* loadGame: Null, or the state loaded.  Whatever is thrown inside the try
\* block (by getItem, by JSON.parse, or as a TypeError on a value without the
\* fields read) is caught and gives null.
loadGame(storage, clock) ==
    IF storage = Null THEN Null
    ELSE IF JSON_parse(storage[1]) = Null THEN Null
    ELSE IF ~HasGameFields(JSON_parse(storage[1])[1]) THEN Null
    ELSE LET s == JSON_parse(storage[1])[1]
             offline == calculateOfflineProgress(s.farm, s.upgrades, s.lastUpdate, clock)
         IN  Some([s EXCEPT !.farm = offline.farm,
                            !.player.eggs = @ + offline.eggsProduced,
                            !.player.coins = @ + offline.coinsEarned,
                            !.lastUpdate = clock])

\* The displacement along one axis for the direction d in {-1, 0, 1}:
\* d * speed, and d / Math.sqrt(2) * speed when both axes are pressed (the
\* irrational factor is cut to 4 decimals and the product to position units).
Displacement(d, diagonal, speed) ==
    IF diagonal THEN d * ((speed * 7071) \div 10000) ELSE d * speed

\* Fault variant of Bounds: the farm is given the bounds of the forest.
Bounds_ForestEverywhere(area) ==
    [minX |-> P(PLAYER_SIZE), maxX |-> P(FOREST_WIDTH - PLAYER_SIZE),
     minY |-> P(PLAYER_SIZE), maxY |-> P(FOREST_HEIGHT - PLAYER_SIZE)]

\* const bounds = state.currentArea === 'forest' ? {...} : {...}
Bounds(area) ==
    IF area = "forest"
    THEN [minX |-> P(PLAYER_SIZE), maxX |-> P(FOREST_WIDTH - PLAYER_SIZE),
          minY |-> P(PLAYER_SIZE), maxY |-> P(FOREST_HEIGHT - PLAYER_SIZE)]
    ELSE [minX |-> P(PLAYER_SIZE), maxX |-> P(FARM_WIDTH - PLAYER_SIZE),
          minY |-> P(PLAYER_SIZE), maxY |-> P(FARM_HEIGHT - PLAYER_SIZE)]

\* Fault variant of updatePlayerMovement: the clamped move is committed
\* without the tree test.
updatePlayerMovement_CommitsAttempt(s, keys, deltaTime) ==
    LET speed == (s.player.speed * UpgradeValue100("walkingSpeed", s.upgrades)
                    * deltaTime * POS_SCALE) \div 100000
        dx == (IF "d" \in keys THEN 1 ELSE 0) - (IF "a" \in keys THEN 1 ELSE 0)
        dy == (IF "s" \in keys THEN 1 ELSE 0) - (IF "w" \in keys THEN 1 ELSE 0)
        diagonal == dx # 0 /\ dy # 0
        bounds == Bounds(s.currentArea)
        newX == Max(bounds.minX, Min(bounds.maxX, s.player.x + Displacement(dx, diagonal, speed)))
        newY == Max(bounds.minY, Min(bounds.maxY, s.player.y + Displacement(dy, diagonal, speed)))
    IN  [s EXCEPT !.player.x = newX, !.player.y = newY]

\* keys is a set of "w", "a", "s", "d" (their capitals and the arrow keys
\* are read the same way)
updatePlayerMovement(s, keys, deltaTime) ==
    LET \* state.player.speed * state.upgrades.walkingSpeed * (deltaTime / 1000)
        speed == (s.player.speed * UpgradeValue100("walkingSpeed", s.upgrades)
                    * deltaTime * POS_SCALE) \div 100000
        dx == (IF "d" \in keys THEN 1 ELSE 0) - (IF "a" \in keys THEN 1 ELSE 0)
        dy == (IF "s" \in keys THEN 1 ELSE 0) - (IF "w" \in keys THEN 1 ELSE 0)
        diagonal == dx # 0 /\ dy # 0
        bounds == Bounds(s.currentArea)
        newX == Max(bounds.minX, Min(bounds.maxX, s.player.x + Displacement(dx, diagonal, speed)))
        newY == Max(bounds.minY, Min(bounds.maxY, s.player.y + Displacement(dy, diagonal, speed)))
        hits(x, y) == checkTreeCollision(s.forest, x, y, PLAYER_SIZE \div 2)
        pos == IF s.currentArea = "forest" /\ hits(newX, newY)
               THEN IF ~hits(newX, s.player.y) THEN << newX, s.player.y >>
                    ELSE IF ~hits(s.player.x, newY) THEN << s.player.x, newY >>
                    ELSE << s.player.x, s.player.y >>
               ELSE << newX, newY >>
    IN  [s EXCEPT !.player.x = pos[1], !.player.y = pos[2]]

\* A hint: its text without the parts that vary, the seed type of
\* `Press E to collect ${type} seed`, and the number of `Growing: ${n}%` or
\* `Fed for ${n}s`.
Hint(text, seedType, n) == Some([text |-> text, seedType |-> seedType, n |-> n])

\* getInteractionHint: Null, or the hint shown
getInteractionHint(s, clock) ==
    LET nearbySeed == getNearbySeed(s.forest, s.player.x, s.player.y, s.unlockedSeeds)
        nearbyPlot == getNearbyPlot(s.farm, s.player.x, s.player.y)
        nearbyChicken == getNearbyChicken(s.farm, s.player.x, s.player.y)
        hasSeeds == \E type \in DOMAIN s.player.seeds : s.player.seeds[type] > 0
    IN  IF s.currentArea = "forest"
        THEN IF nearbySeed = Null THEN Null
             ELSE IF s.player.seeds[nearbySeed[1].type]
                        < UpgradeValue100("seedBagCapacity", s.upgrades) \div 100
                  THEN Hint("Press E to collect seed", nearbySeed[1].type, 0)
                  ELSE Hint("Seed bag full!", "null", 0)
        ELSE IF nearbyPlot # Null
             THEN IF ~nearbyPlot[1].planted
                  THEN IF hasSeeds THEN Hint("Press E to plant", "null", 0)
                       ELSE Hint("No seeds to plant", "null", 0)
                  ELSE IF nearbyPlot[1].growthProgress >= PROGRESS_ONE
                       THEN Hint("Press E to harvest", "null", 0)
                       ELSE Hint("Growing", "null",
                                 (nearbyPlot[1].growthProgress * 100) \div PROGRESS_ONE)
             ELSE IF nearbyChicken # Null
                  THEN IF clock < nearbyChicken[1].fedUntil
                       THEN Hint("Fed for", "null",
                                 (nearbyChicken[1].fedUntil - clock + 999) \div 1000)
                       ELSE IF s.player.watermelons > 0
                            THEN Hint("Press E to feed", "null", 0)
                            ELSE Hint("Need watermelon to feed", "null", 0)
                  ELSE Null

\* Fault variant of updateGame: only the area the player is in is updated.
updateGame_OnlyCurrentArea(s, keys, deltaTime, clock, roll) ==
    LET moved == updatePlayerMovement(s, keys, deltaTime)
        farmUpdate == IF moved.currentArea = "farm"
                      THEN updateFarm(moved.farm, moved.upgrades, deltaTime, clock)
                      ELSE [farm |-> moved.farm, eggsProduced |-> 0, coinsEarned |-> 0]
    IN  [moved EXCEPT !.forest = IF moved.currentArea = "forest"
                                 THEN updateForest(moved.forest, clock, roll) ELSE @,
                      !.farm = farmUpdate.farm,
                      !.player.eggs = @ + farmUpdate.eggsProduced,
                      !.player.coins = @ + farmUpdate.coinsEarned,
                      !.totalCoinsEarned = @ + farmUpdate.coinsEarned,
                      !.lastUpdate = clock]

updateGame(s, keys, deltaTime, clock, roll) ==
    LET moved == updatePlayerMovement(s, keys, deltaTime)
        farmUpdate == updateFarm(moved.farm, moved.upgrades, deltaTime, clock)
    IN  [moved EXCEPT !.forest = updateForest(moved.forest, clock, roll),
                      !.farm = farmUpdate.farm,
                      !.player.eggs = @ + farmUpdate.eggsProduced,
                      !.player.coins = @ + farmUpdate.coinsEarned,
                      !.totalCoinsEarned = @ + farmUpdate.coinsEarned,
                      !.lastUpdate = clock]

\* Fault variant of handleForestInteraction: the capacity test is <=.
handleForestInteraction_OverCapacity(s, clock) ==
    LET got == collectSeed(s.forest, s.player.x, s.player.y, s.unlockedSeeds, clock)
    IN  IF got.collectedSeed # Null
           /\ s.player.seeds[got.collectedSeed[1].type]
                <= UpgradeValue100("seedBagCapacity", s.upgrades) \div 100
        THEN [s EXCEPT !.forest = got.forest,
                       !.player.seeds[got.collectedSeed[1].type] = @ + 1]
        ELSE [s EXCEPT !.forest = got.forest]

\* Fault variant of handleForestInteraction: with a full bag the seed stays
\* on the field.
handleForestInteraction_KeepsSeed(s, clock) ==
    LET got == collectSeed(s.forest, s.player.x, s.player.y, s.unlockedSeeds, clock)
    IN  IF got.collectedSeed # Null
           /\ s.player.seeds[got.collectedSeed[1].type]
                < UpgradeValue100("seedBagCapacity", s.upgrades) \div 100
        THEN [s EXCEPT !.forest = got.forest,
                       !.player.seeds[got.collectedSeed[1].type] = @ + 1]
        ELSE s

handleForestInteraction(s, clock) ==
    LET got == collectSeed(s.forest, s.player.x, s.player.y, s.unlockedSeeds, clock)
    IN  IF got.collectedSeed # Null
           /\ s.player.seeds[got.collectedSeed[1].type]
                < UpgradeValue100("seedBagCapacity", s.upgrades) \div 100
        THEN [s EXCEPT !.forest = got.forest,
                       !.player.seeds[got.collectedSeed[1].type] = @ + 1]
        ELSE [s EXCEPT !.forest = got.forest]

\* Fault variant of seedTypes: the lowest tier is tried first.
seedTypes_LowestFirst == << "basic", "silver", "gold", "crystal" >>

\* const seedTypes = ['crystal', 'gold', 'silver', 'basic'], tried in this order
seedTypes == << "crystal", "gold", "silver", "basic" >>

\* if (seedCount > 0 && state.unlockedSeeds.includes(seedType))
Plantable(s, seedType) == s.player.seeds[seedType] > 0 /\ InSeq(s.unlockedSeeds, seedType)

\* Fault variant of handleFarmInteraction: feeding does not ask for a watermelon.
handleFarmInteraction_FeedsWithoutMelon(s, clock) ==
    LET nearbyPlot == getNearbyPlot(s.farm, s.player.x, s.player.y)
        nearbyChicken == getNearbyChicken(s.farm, s.player.x, s.player.y)
        plantable == {n \in DOMAIN seedTypes : Plantable(s, seedTypes[n])}
        seedType == seedTypes[CHOOSE n \in plantable : \A m \in plantable : n <= m]
        harvest == harvestPlot(s.farm, nearbyPlot[1].id)
        feed == feedChicken(s.farm, nearbyChicken[1].id, s.upgrades, clock)
    IN  IF nearbyPlot # Null
        THEN IF ~nearbyPlot[1].planted
             THEN IF plantable # {}
                  THEN [s EXCEPT !.farm = plantSeed(s.farm, nearbyPlot[1].id, seedType, clock),
                                 !.player.seeds[seedType] = @ - 1]
                  ELSE s
             ELSE IF nearbyPlot[1].growthProgress >= PROGRESS_ONE
                  THEN [s EXCEPT !.farm = harvest.farm,
                                 !.player.watermelons = @ + harvest.watermelons]
                  ELSE s
        ELSE IF nearbyChicken # Null
             THEN IF feed.watermelonsUsed > 0
                  THEN [s EXCEPT !.farm = feed.farm,
                                 !.player.watermelons = @ - feed.watermelonsUsed]
                  ELSE s
             ELSE s

handleFarmInteraction(s, clock) ==
    LET nearbyPlot == getNearbyPlot(s.farm, s.player.x, s.player.y)
        nearbyChicken == getNearbyChicken(s.farm, s.player.x, s.player.y)
        plantable == {n \in DOMAIN seedTypes : Plantable(s, seedTypes[n])}
        seedType == seedTypes[CHOOSE n \in plantable : \A m \in plantable : n <= m]
        harvest == harvestPlot(s.farm, nearbyPlot[1].id)
        feed == feedChicken(s.farm, nearbyChicken[1].id, s.upgrades, clock)
    IN  IF nearbyPlot # Null
        THEN IF ~nearbyPlot[1].planted
             THEN IF plantable # {}
                  THEN [s EXCEPT !.farm = plantSeed(s.farm, nearbyPlot[1].id, seedType, clock),
                                 !.player.seeds[seedType] = @ - 1]
                  ELSE s
             ELSE IF nearbyPlot[1].growthProgress >= PROGRESS_ONE
                  THEN [s EXCEPT !.farm = harvest.farm,
                                 !.player.watermelons = @ + harvest.watermelons]
                  ELSE s
        ELSE IF nearbyChicken # Null /\ s.player.watermelons > 0
             THEN IF feed.watermelonsUsed > 0
                  THEN [s EXCEPT !.farm = feed.farm,
                                 !.player.watermelons = @ - feed.watermelonsUsed]
                  ELSE s
             ELSE s

handleInteraction(s, clock) ==
    IF s.currentArea = "forest" THEN handleForestInteraction(s, clock)
    ELSE handleFarmInteraction(s, clock)

\* Fault variant of switchArea: the player keeps the position of the old area.
switchArea_KeepPosition(s) ==
    [s EXCEPT !.currentArea = IF s.currentArea = "forest" THEN "farm" ELSE "forest"]

switchArea(s) ==
    LET newArea == IF s.currentArea = "forest" THEN "farm" ELSE "forest"
    IN  [s EXCEPT !.currentArea = newArea,
                  !.player.x = IF newArea = "forest" THEN P(FOREST_WIDTH \div 2)
                               ELSE P(FARM_WIDTH \div 2),
                  !.player.y = IF newArea = "forest" THEN P(FOREST_HEIGHT \div 2)
                               ELSE P(FARM_HEIGHT \div 2)]

\* Fault variant of Maxed: the cap is tested with > instead of >=.
Maxed_OffByOne(upgradeDef, level) == level > upgradeDef.maxLevel

\* if (currentLevel >= upgradeDef.maxLevel) return state
Maxed(upgradeDef, level) == level >= upgradeDef.maxLevel

\* Fault variant of buyUpgrade: the price of the level being bought is
\* charged, costMultiplier^(currentLevel + 1).
buyUpgrade_ChargesNextLevel(s, upgradeIndex) ==
    IF upgradeIndex + 1 \notin DOMAIN UPGRADE_DEFINITIONS THEN s
    ELSE LET upgradeDef == UPGRADE_DEFINITIONS[upgradeIndex + 1]
             level == currentLevel(upgradeDef, s.upgrades)
             cost == upgradeCost(upgradeDef, level + 1)
         IN  IF Maxed(upgradeDef, level) THEN s
             ELSE IF CannotAfford(s.player.coins, cost) THEN s
             ELSE [s EXCEPT !.player.coins = @ - cost * COIN_SCALE,
                            !.upgrades[upgradeDef.id] = @ + 1]

\* upgradeIndex counts from 0, as in the source
buyUpgrade(s, upgradeIndex) ==
    IF upgradeIndex + 1 \notin DOMAIN UPGRADE_DEFINITIONS THEN s
    ELSE LET upgradeDef == UPGRADE_DEFINITIONS[upgradeIndex + 1]
             level == currentLevel(upgradeDef, s.upgrades)
             cost == upgradeCost(upgradeDef, level)
         IN  IF Maxed(upgradeDef, level) THEN s
             ELSE IF CannotAfford(s.player.coins, cost) THEN s
             ELSE [s EXCEPT !.player.coins = @ - cost * COIN_SCALE,
                            !.upgrades[upgradeDef.id] = @ + 1]

\* Fault variant of buyNewPlot: the price counts the plots owned, not the
\* one being bought.
buyNewPlot_CountOwned(s) ==
    LET cost == PLOT_COST * Len(s.farm.plots)
    IN  IF CannotAfford(s.player.coins, cost) THEN s
        ELSE [s EXCEPT !.player.coins = @ - cost * COIN_SCALE, !.farm = buyPlot(s.farm)]

buyNewPlot(s) ==
    LET cost == PLOT_COST * (Len(s.farm.plots) + 1)
    IN  IF CannotAfford(s.player.coins, cost) THEN s
        ELSE [s EXCEPT !.player.coins = @ - cost * COIN_SCALE, !.farm = buyPlot(s.farm)]

buyNewChicken(s) ==
    LET cost == CHICKEN_COST * (Len(s.farm.chickens) + 1)
    IN  IF CannotAfford(s.player.coins, cost) THEN s
        ELSE [s EXCEPT !.player.coins = @ - cost * COIN_SCALE, !.farm = buyChicken(s.farm)]

\* Fault variant of upgradeSelectedChicken: the farm returned by
\* upgradeChicken is kept when the coins do not cover the cost.
upgradeSelectedChicken_TierFirst(s, chickenId) ==
    LET up == upgradeChicken(s.farm, chickenId)
    IN  IF ~up.success THEN s
        ELSE IF CannotAfford(s.player.coins, up.cost) THEN [s EXCEPT !.farm = up.farm]
        ELSE [s EXCEPT !.player.coins = @ - up.cost * COIN_SCALE, !.farm = up.farm]

upgradeSelectedChicken(s, chickenId) ==
    LET up == upgradeChicken(s.farm, chickenId)
    IN  IF ~up.success \/ CannotAfford(s.player.coins, up.cost) THEN s
        ELSE [s EXCEPT !.player.coins = @ - up.cost * COIN_SCALE, !.farm = up.farm]

\* Fault variant of unlockSeedType: the new type goes to the front of the list.
unlockSeedType_Prepend(s, seedType) ==
    LET cost == SEED_CONFIGS[seedType].unlockCost
    IN  IF InSeq(s.unlockedSeeds, seedType) THEN s
        ELSE IF CannotAfford(s.player.coins, cost) THEN s
        ELSE [s EXCEPT !.player.coins = @ - cost * COIN_SCALE,
                       !.unlockedSeeds = << seedType >> \o @]

\* Fault variant of unlockSeedType: the already-unlocked test is left out.
unlockSeedType_NoDupCheck(s, seedType) ==
    LET cost == SEED_CONFIGS[seedType].unlockCost
    IN  IF CannotAfford(s.player.coins, cost) THEN s
        ELSE [s EXCEPT !.player.coins = @ - cost * COIN_SCALE,
                       !.unlockedSeeds = Append(@, seedType)]

unlockSeedType(s, seedType) ==
    LET cost == SEED_CONFIGS[seedType].unlockCost
    IN  IF InSeq(s.unlockedSeeds, seedType) THEN s
        ELSE IF CannotAfford(s.player.coins, cost) THEN s
        ELSE [s EXCEPT !.player.coins = @ - cost * COIN_SCALE,
                       !.unlockedSeeds = Append(@, seedType)]

\* Fault variant of handleZoom: the upper clamp is left out.
handleZoom_NoUpperClamp(s, delta) ==
    [s EXCEPT !.zoom = DoubleMax(DOUBLE_HALF, DoubleAdd(@, delta, DOUBLE_TENTH))]

\* Math.max(0.5, Math.min(2, state.zoom + delta * 0.1)) for the deltas -1, 0
\* and 1 that handleWheel passes, for which delta * 0.1 is exact
handleZoom(s, delta) ==
    [s EXCEPT !.zoom = DoubleMax(DOUBLE_HALF,
                           DoubleMin(DOUBLE_TWO, DoubleAdd(@, delta, DOUBLE_TENTH)))]

----------------------------------------------------------------------------
(* The driver: src/components/Game.tsx *)

\* The clock readings explored.
Times == {T0 + c * COARSE_MS + f * STEP_MS : c \in 0..MaxCoarse, f \in 0..MaxFine}

\* the clock readings of the coarse steps
CoarseTimes == {T0 + c * COARSE_MS : c \in 0..MaxCoarse}

\* gameLoop: one animation frame at the wall-clock reading t.
\*   if (!lastTimeRef.current) lastTimeRef.current = currentTime;
\*   const deltaTime = Math.min(currentTime - lastTimeRef.current, 100);
FrameDelta(currentTime, last) ==
    Min(currentTime - (IF last = 0 THEN currentTime ELSE last), MAX_DELTA_TIME)

Tick(t, keys) ==
    /\ t > now
    /\ \E roll \in [{i \in DOMAIN state.forest.seeds : Respawns(state.forest.seeds[i], t)}
                      -> SEED_TYPES] :
          /\ \A i \in DOMAIN roll :
                roll[i] \in SeedTypesAt(state.forest.seeds[i].x, state.forest.seeds[i].y)
          /\ state' = updateGame(state, keys, FrameDelta(perf + (t - now), lastTime), t, roll)
    /\ now' = t
    /\ perf' = perf + (t - now)
    /\ lastTime' = perf'
    /\ UNCHANGED <<saved, refs>>

\* The wall clock is set back by d coarse steps (Date.now() is not
\* monotonic); the frame clock is not affected.  perf - now grows by what
\* the wall clock lost, which is explored up to MaxSkew coarse steps.
ClockBack(d) ==
    /\ (perf - 1000) - (now - d * COARSE_MS - T0) <= MaxSkew * COARSE_MS
    /\ now' = now - d * COARSE_MS
    /\ UNCHANGED <<state, perf, lastTime, saved, refs>>

\* handleKeyDown: 'e'
Interact ==
    /\ state' = handleInteraction(state, now)
    /\ UNCHANGED <<now, perf, lastTime, saved, refs>>

\* handleKeyDown: 'Tab'
SwitchArea ==
    /\ state' = switchArea(state)
    /\ UNCHANGED <<now, perf, lastTime, saved, refs>>

\* handleKeyDown: '1'..'5' give the indices 0..4; the engine function is also
\* applied to an index with no definition
BuyUpgrade(upgradeIndex) ==
    /\ state' = buyUpgrade(state, upgradeIndex)
    /\ UNCHANGED <<now, perf, lastTime, saved, refs>>

\* handleKeyDown: '6'
BuyNewPlot ==
    /\ Len(state.farm.plots) < MaxPlots
    /\ state' = buyNewPlot(state)
    /\ UNCHANGED <<now, perf, lastTime, saved, refs>>

\* handleKeyDown: '7'
BuyNewChicken ==
    /\ Len(state.farm.chickens) < MaxChickens
    /\ state' = buyNewChicken(state)
    /\ UNCHANGED <<now, perf, lastTime, saved, refs>>

\* handleClick gives the id of the chicken under the pointer; the engine
\* function is also applied to an id no chicken has
UpgradeSelectedChicken(chickenId) ==
    /\ state' = upgradeSelectedChicken(state, chickenId)
    /\ UNCHANGED <<now, perf, lastTime, saved, refs>>

\* handleKeyDown: '8', '9', '0' give silver, gold, crystal
UnlockSeedType(seedType) ==
    /\ state' = unlockSeedType(state, seedType)
    /\ UNCHANGED <<now, perf, lastTime, saved, refs>>

\* handleWheel: delta = -Math.sign(e.deltaY)
HandleZoom(delta) ==
    /\ state' = handleZoom(state, delta)
    /\ UNCHANGED <<now, perf, lastTime, saved, refs>>

\* The auto-save timer (every 10 s) or the unmount hook fires at the clock
\* reading t; frames may have stopped before (a hidden tab runs timers, not
\* animation frames), so the save can be `delay` ms later than the last
\* frame.  A delay is explored from the clock readings of the grid only.
Save(delay) ==
    /\ delay = 0 \/ now + delay <= T0 + MaxCoarse * COARSE_MS + MaxFine * STEP_MS
    /\ saved' = saveGame(state, now + delay)
    /\ now' = now + delay
    /\ perf' = perf + delay
    /\ UNCHANGED <<state, lastTime, refs>>

\* The offline gaps explored: none, one coarse step, 2 hours, 25 hours.
OFFLINE_GAPS == {0, COARSE_MS, 2 * 3600 * 1000, MAX_OFFLINE_TIME + 3600 * 1000}

\* Fault variant of Load: a load that fails removes the stored document.
Load_ClearsStorage(gap) ==
    /\ gap = 0 \/ now <= T0 + MaxCoarse * COARSE_MS + MaxFine * STEP_MS
    /\ now' = now + gap
    /\ IF loadGame(saved, now + gap) # Null
       THEN state' = loadGame(saved, now + gap)[1] /\ saved' = saved
       ELSE /\ \E types \in [DOMAIN BUSH_SITES -> SEED_TYPES] :
                  /\ \A i \in DOMAIN BUSH_SITES :
                        types[i] \in SeedTypesAt(BUSH_SITES[i].x, BUSH_SITES[i].y)
                  /\ state' = createInitialState(initializeForest(types), now + gap)
            /\ saved' = Null
    /\ perf' = 1000
    /\ lastTime' = 0
    /\ gameStateNull' = FALSE
    /\ skipSaveRef' = FALSE

\* The page is opened again `gap` ms later: loadGame() || createInitialState(),
\* with a new frame clock.  A gap is explored from the clock readings of the
\* grid only, which keeps the clock bounded.
Load(gap) ==
    /\ gap = 0 \/ now <= T0 + MaxCoarse * COARSE_MS + MaxFine * STEP_MS
    /\ now' = now + gap
    /\ IF loadGame(saved, now + gap) # Null
       THEN state' = loadGame(saved, now + gap)[1]
       ELSE \E types \in [DOMAIN BUSH_SITES -> SEED_TYPES] :
               /\ \A i \in DOMAIN BUSH_SITES :
                     types[i] \in SeedTypesAt(BUSH_SITES[i].x, BUSH_SITES[i].y)
               /\ state' = createInitialState(initializeForest(types), now + gap)
    /\ perf' = 1000
    /\ lastTime' = 0
    /\ gameStateNull' = FALSE
    /\ skipSaveRef' = FALSE
    /\ UNCHANGED saved

\* exportSave: Null (an alert, no file), or the content of the file
\* downloaded, which is the text in localStorage[SAVE_KEY] as it is
exportSave(storage) == storage

\* Fault variant of importSave: gameStateRef.current is not set to null.
importSave_KeepsState(document, gameState, storage, skipSave) ==
    IF ~StartsWithWF1(document)
    THEN [gameState |-> gameState, storage |-> storage, skipSave |-> skipSave,
          reload |-> FALSE]
    ELSE [gameState |-> gameState, storage |-> Some(document), skipSave |-> TRUE,
          reload |-> TRUE]

\* Fault variant of importSave: the tag is not tested.
importSave_AnyFile(document, gameState, storage, skipSave) ==
    [gameState |-> Null, storage |-> Some(document), skipSave |-> TRUE, reload |-> TRUE]

\* importSave, reader.onload: what becomes of gameStateRef.current, of
\* localStorage[SAVE_KEY] and of skipSaveRef.current, and whether the page is
\* reloaded
importSave(document, gameState, storage, skipSave) ==
    IF ~StartsWithWF1(document)
    THEN [gameState |-> gameState, storage |-> storage, skipSave |-> skipSave,
          reload |-> FALSE]
    ELSE [gameState |-> Null, storage |-> Some(document), skipSave |-> TRUE,
          reload |-> TRUE]

\* The files offered to importSave: a tagged file, the file exportSave wrote
\* (the stored document as it is), another text
IMPORT_KINDS == {"tagged", "exported", "other"}

ImportFile(kind) ==
    IF kind = "tagged" THEN WF1_TEXT
    ELSE IF kind = "exported" THEN saved[1]
    ELSE OTHER_TEXT

\* The player picks a file in the save dialog.  An accepted file is stored
\* and window.location.reload() opens the page again: the unmount save is
\* skipped and the new page starts with loadGame() || createInitialState().
ImportSave(kind) ==
    /\ kind = "exported" => saved # Null
    /\ LET done == importSave(ImportFile(kind), Some(state), saved, FALSE)
       IN  IF ~done.reload
           THEN /\ state' = done.gameState[1]
                /\ saved' = done.storage
                /\ UNCHANGED <<now, perf, lastTime, refs>>
           ELSE /\ saved' = done.storage
                /\ IF loadGame(done.storage, now) # Null
                   THEN state' = loadGame(done.storage, now)[1]
                   ELSE \E types \in [DOMAIN BUSH_SITES -> SEED_TYPES] :
                           /\ \A i \in DOMAIN BUSH_SITES :
                                 types[i] \in SeedTypesAt(BUSH_SITES[i].x, BUSH_SITES[i].y)
                           /\ state' = createInitialState(initializeForest(types), now)
                /\ perf' = 1000
                /\ lastTime' = 0
                /\ gameStateNull' = FALSE
                /\ skipSaveRef' = FALSE
                /\ UNCHANGED now

\* gameLoop at the clock reading t: the state is updated only
\* if (gameStateRef.current && rendererRef.current); lastTimeRef is set anyway
GameLoop(t) ==
    IF ~gameStateNull THEN Tick(t, {})
    ELSE /\ t > now
         /\ now' = t
         /\ perf' = perf + (t - now)
         /\ lastTime' = perf'
         /\ UNCHANGED <<state, saved, refs>>

\* handleKeyDown, 'e': if (!gameStateRef.current) return
KeyDownE ==
    IF gameStateNull THEN UNCHANGED vars ELSE Interact

\* The setInterval callback of the init effect:
\*   if (gameStateRef.current) saveGame(gameStateRef.current)
AutoSave ==
    /\ saved' = IF ~gameStateNull THEN saveGame(state, now) ELSE saved
    /\ UNCHANGED <<state, now, perf, lastTime, refs>>

\* The cleanup of the init effect:
\*   if (gameStateRef.current && !skipSaveRef.current) saveGame(gameStateRef.current)
Unmount ==
    /\ saved' = IF ~gameStateNull /\ ~skipSaveRef THEN saveGame(state, now) ELSE saved
    /\ UNCHANGED <<state, now, perf, lastTime, refs>>

\* reader.onload of importSave up to the call of window.location.reload():
\* the refs and localStorage are written in one run of the handler
ImportStore(kind) ==
    /\ kind = "exported" => saved # Null
    /\ LET done == importSave(ImportFile(kind),
                              IF gameStateNull THEN Null ELSE Some(state),
                              saved, skipSaveRef)
       IN  /\ saved' = done.storage
           /\ gameStateNull' = (done.gameState = Null)
           /\ skipSaveRef' = done.skipSave
    /\ UNCHANGED <<state, now, perf, lastTime>>

\* The reload asked for by importSave takes place: the page starts again
\* with loadGame() || createInitialState()
Reload ==
    /\ skipSaveRef
    /\ Load(0)

----------------------------------------------------------------------------
(* States the game is resumed in *)

\* k purchases of the upgrade were each let through by buyUpgrade
PurchasesAllowed(id, k) ==
    \A j \in 0..(k - 1) :
        \E i \in DOMAIN UPGRADE_DEFINITIONS :
            /\ UPGRADE_DEFINITIONS[i].id = id
            /\ ~Maxed(UPGRADE_DEFINITIONS[i], FLOAT_LEVEL[id][j + 1])

RECURSIVE PaidFor(_, _)
\* the coins k purchases of the upgrade took
PaidFor(id, k) ==
    IF k = 0 THEN 0
    ELSE FLOAT_COST[id][FLOAT_LEVEL[id][k] + 1] + PaidFor(id, k - 1)

Spent(upgrades) ==
    PaidFor("seedBagCapacity", upgrades["seedBagCapacity"])
    + PaidFor("walkingSpeed", upgrades["walkingSpeed"])
    + PaidFor("plotFertility", upgrades["plotFertility"])
    + PaidFor("chickenHunger", upgrades["chickenHunger"])
    + PaidFor("eggValue", upgrades["eggValue"])

\* The initial state after earlier play: the player has walked to (x, y) of
\* the area, holds the seeds and watermelons, has bought the upgrades and
\* holds `coins` coins, and chicken 0 has been upgraded to `tier`; everything
\* was earned from eggs laid by chicken 0
\* and sold before the first eggValue purchase.
Resumed(area, x, y, seeds, watermelons, coins, upgrades, unlocked, tier) ==
    LET fresh == createInitialState(initializeForest([i \in DOMAIN BUSH_SITES |-> "basic"]), T0)
        earned == (coins - 50 + Spent(upgrades)
                     + SumSeq([n \in DOMAIN unlocked |-> SEED_CONFIGS[unlocked[n]].unlockCost])
                     + SumSeq([n \in 1..TypeIndex(tier) |->
                                 CHICKEN_CONFIGS[typeOrder[n]].upgradeCost]))
                  * COIN_SCALE
    IN  [fresh EXCEPT !.currentArea = area,
                      !.player.x = P(x), !.player.y = P(y),
                      !.player.seeds = seeds,
                      !.player.watermelons = watermelons,
                      !.player.coins = coins * COIN_SCALE,
                      !.player.eggs = earned \div 2,
                      !.farm.chickens[1].eggsProduced = earned \div 2,
                      !.farm.chickens[1].type = tier,
                      !.totalCoinsEarned = earned,
                      !.upgrades = upgrades,
                      !.unlockedSeeds = unlocked]

NoSeeds == [t \in SEED_TYPES |-> 0]
NoUpgrades == [id \in UPGRADE_IDS |-> 0]

\* Every upgrade short of its last purchases
LATE_UPGRADES ==
    [seedBagCapacity |-> 9, walkingSpeed |-> 7, plotFertility |-> 10,
     chickenHunger |-> 9, eggValue |-> 7]

InitEnv ==
    /\ now = T0
    /\ perf = 1000
    /\ lastTime = 0
    /\ saved = Null
    /\ gameStateNull = FALSE
    /\ skipSaveRef = FALSE

----------------------------------------------------------------------------
(* Shop: the purchase commands, at the start of a game and late in it *)

InitShop ==
    /\ InitEnv
    /\ \E stage \in { << NoUpgrades, 50 >>, << NoUpgrades, 600 >>,
                      << LATE_UPGRADES, 2000 >>, << LATE_UPGRADES, 60000 >> } :
          /\ \A id \in UPGRADE_IDS : PurchasesAllowed(id, stage[1][id])
          /\ state = Resumed("farm", FARM_WIDTH \div 2, FARM_HEIGHT \div 2,
                             NoSeeds, 0, stage[2], stage[1], << "basic" >>, "basic")

\* Frames within the first fine steps of the clock grid
ShopTimes == {T0 + f * STEP_MS : f \in 0..MaxFine}

NextShop ==
    \/ \E t \in ShopTimes : Tick(t, {})
    \/ \E upgradeIndex \in 0..Len(UPGRADE_DEFINITIONS) : BuyUpgrade(upgradeIndex)
    \/ BuyNewPlot
    \/ BuyNewChicken
    \/ \E chickenId \in 0..MaxChickens : UpgradeSelectedChicken(chickenId)
    \/ \E seedType \in SEED_TYPES : UnlockSeedType(seedType)

SpecShop == InitShop /\ [][NextShop]_vars

----------------------------------------------------------------------------
(* Farm: planting, growth, harvest, feeding and laying under live ticks *)

\* The player stands at plot 0 with seeds, or at chicken 0 with watermelons.
InitFarm ==
    /\ InitEnv
    /\ \E coins \in {50, 320} :
          \/ \E seeds \in { [NoSeeds EXCEPT !["basic"] = 2],
                           [NoSeeds EXCEPT !["basic"] = 1, !["silver"] = 1],
                           [NoSeeds EXCEPT !["silver"] = 1] } :
                state = Resumed("farm", 124, 174, seeds, 0, coins, NoUpgrades,
                                IF seeds["silver"] > 0 THEN << "basic", "silver" >>
                                ELSE << "basic" >>, "basic")
          \/ \E watermelons \in 1..2, tier \in {"basic", "fat"} :
                state = Resumed("farm", 516, 216, NoSeeds, watermelons, coins,
                                NoUpgrades, << "basic" >>, tier)
          \* at plot 1 only, plot 0 planted one coarse step before the save
          \/ state = [Resumed("farm", 184, 174, [NoSeeds EXCEPT !["basic"] = 1], 0, coins,
                               NoUpgrades, << "basic" >>, "basic")
                         EXCEPT !.farm.plots[1] =
                            [@ EXCEPT !.planted = TRUE, !.seedType = "basic",
                                      !.plantedAt = T0 - COARSE_MS,
                                      !.growthProgress = PROGRESS_ONE \div 2]]

KEYS == { {} }

Next ==
    \/ \E t \in Times, keys \in KEYS : Tick(t, keys)
    \/ Interact
    \/ \E upgradeIndex \in {2, 3} : BuyUpgrade(upgradeIndex)
    \/ BuyNewPlot
    \/ BuyNewChicken
    \/ \E chickenId \in 0..MaxChickens : UpgradeSelectedChicken(chickenId)
    \/ \E seedType \in SEED_TYPES : UnlockSeedType(seedType)

Spec == InitFarm /\ [][Next]_vars

----------------------------------------------------------------------------
(* Farm under a wall clock that can be set back *)

NextSkew ==
    \/ \E t \in Times : Tick(t, {})
    \/ Interact
    \/ SwitchArea
    \/ \E d \in 1..MaxSkew : ClockBack(d)

InitSkew ==
    /\ InitEnv
    /\ state = Resumed("farm", 124, 174, [NoSeeds EXCEPT !["basic"] = 2], 0, 50,
                       NoUpgrades, << "basic" >>, "basic")

SpecSkew == InitSkew /\ [][NextSkew]_vars

----------------------------------------------------------------------------
(* One feeding: the player stands at chicken 0 with a single watermelon *)

InitFeed ==
    /\ InitEnv
    /\ \E tier \in {"basic", "fat"}, coins \in {50, 60} :
          state = Resumed("farm", 516, 216, NoSeeds, 1, coins, NoUpgrades, << "basic" >>, tier)

NextFeed ==
    \/ \E t \in Times : Tick(t, {})
    \/ Interact

SpecFeed == InitFeed /\ [][NextFeed]_vars

----------------------------------------------------------------------------
(* Saving and loading: one planting or one feeding, saves and reloads *)

InitLoad ==
    /\ InitEnv
    /\ \/ state = Resumed("farm", 516, 216, NoSeeds, 1, 50, NoUpgrades, << "basic" >>, "basic")
       \/ state = Resumed("farm", 124, 174, [NoSeeds EXCEPT !["basic"] = 1], 0, 50,
                          NoUpgrades, << "basic" >>, "basic")

NextLoad ==
    \/ \E t \in CoarseTimes : Tick(t, {})
    \/ Interact
    \/ \E delay \in {0, COARSE_MS} : Save(delay)
    \/ \E gap \in OFFLINE_GAPS : Load(gap)

SpecLoad == InitLoad /\ [][NextLoad]_vars

----------------------------------------------------------------------------
(* Storage: documents of any origin in localStorage, imports and reloads *)

\* localStorage holds nothing, a save of the game, or a text the game did not
\* write.
InitImport ==
    /\ now = T0
    /\ perf = 1000
    /\ lastTime = 0
    /\ gameStateNull = FALSE
    /\ skipSaveRef = FALSE
    /\ state = Resumed("farm", 516, 216, NoSeeds, 1, 50, NoUpgrades, << "basic" >>, "basic")
    /\ saved \in {Null, Some(WF1_TEXT), Some(OTHER_JSON), Some(OTHER_TEXT),
                  saveGame(state, T0 - COARSE_MS)}

NextImport ==
    \/ \E t \in CoarseTimes : Tick(t, {})
    \/ Interact
    \/ \E delay \in {0, COARSE_MS} : Save(delay)
    \/ \E gap \in {0, COARSE_MS} : Load(gap)
    \/ \E kind \in IMPORT_KINDS : ImportSave(kind)

SpecImport == InitImport /\ [][NextImport]_vars

----------------------------------------------------------------------------
(* The yard: interactions from several places of the farm *)

\* Places of the farm the player can walk to: the centre of plot 0, 50 units
\* right of it, between the plots and the coop, the centre of chicken 0, 50
\* and 51 units right of it.
YARD_PLACES == { << 124, 174 >>, << 174, 174 >>, << 320, 200 >>,
                 << 516, 216 >>, << 566, 216 >>, << 567, 216 >> }

InitYard ==
    /\ InitEnv
    /\ \E place \in YARD_PLACES, watermelons \in 0..1, basic \in 0..1, growing \in BOOLEAN :
          LET s == Resumed("farm", place[1], place[2], [NoSeeds EXCEPT !["basic"] = basic],
                           watermelons, 50, NoUpgrades, << "basic" >>, "basic")
          IN  state = IF growing
                      THEN [s EXCEPT !.farm.plots[1] =
                               [@ EXCEPT !.planted = TRUE, !.seedType = "basic",
                                         !.plantedAt = T0 - COARSE_MS,
                                         !.growthProgress = PROGRESS_ONE \div 2]]
                      ELSE s

NextYard ==
    \/ \E t \in CoarseTimes : Tick(t, {})
    \/ Interact

SpecYard == InitYard /\ [][NextYard]_vars

----------------------------------------------------------------------------
(* Respawning: seeds are collected and frames keep coming *)

InitRespawn ==
    /\ InitEnv
    /\ state = Resumed("forest", 915, 600, NoSeeds, 0, 50, NoUpgrades, << "basic" >>, "basic")

\* the clock readings of the frames: each coarse step and one fine step after it
FrameTimes == {t + f * STEP_MS : t \in CoarseTimes, f \in 0..1}

\* the last clock reading explored
LAST_TIME == T0 + MaxCoarse * COARSE_MS + STEP_MS

\* requestAnimationFrame calls gameLoop again and again
Frame == \E t \in FrameTimes : Tick(t, {})

\* A seed is collected only while its deadline lies within the clock readings
\* explored.
NextRespawn ==
    \/ Frame
    \/ /\ now + SEED_RESPAWN_TIME * 1000 <= LAST_TIME
       /\ Interact

\* Weak fairness of Frame, WF_vars(Frame), with ENABLED <<Frame>>_vars
\* written out: a frame can come exactly while the clock is before the last
\* reading explored.
FrameFairness == []<>(now >= LAST_TIME) \/ []<><<Frame>>_vars

SpecRespawn == InitRespawn /\ [][NextRespawn]_vars /\ FrameFairness

----------------------------------------------------------------------------
(* The view: area switches and zooming among frames, plantings and purchases *)

InitView ==
    /\ InitEnv
    /\ \E coins \in {50, 400} :
          state = Resumed("farm", 124, 174, [NoSeeds EXCEPT !["basic"] = 1], 0, coins,
                          NoUpgrades, << "basic" >>, "basic")

\* Math.sign gives -1, 0 or 1
WHEEL_DELTAS == {-1, 0, 1}

NextView ==
    \/ \E t \in CoarseTimes : Tick(t, {})
    \/ Interact
    \/ SwitchArea
    \/ \E delta \in WHEEL_DELTAS : HandleZoom(delta)
    \/ BuyNewPlot
    \/ UnlockSeedType("silver")

SpecView == InitView /\ [][NextView]_vars

----------------------------------------------------------------------------
(* Forest: the player stands between two bushes, or at a plot with a full bag *)

InitForest ==
    /\ InitEnv
    /\ \E coins \in {50, 150} :
          \/ \E basic \in {0, 9, 10} :
                state = Resumed("forest", 915, 600, [NoSeeds EXCEPT !["basic"] = basic], 0,
                                coins, NoUpgrades, << "basic" >>, "basic")
          \/ state = Resumed("farm", 124, 174, [NoSeeds EXCEPT !["basic"] = 10], 0,
                             coins, NoUpgrades, << "basic" >>, "basic")

NextForest ==
    \/ \E t \in CoarseTimes : Tick(t, {})
    \/ Interact
    \/ BuyUpgrade(0)
    \/ UnlockSeedType("silver")

SpecForest == InitForest /\ [][NextForest]_vars

----------------------------------------------------------------------------
(* Walking: frames with movement keys held, at the edges of both areas and
   around the trunk of the tree at (800, 460) *)

\* input.keys: nothing held, one direction, two directions at once, and two
\* opposite directions (which cancel)
WALK_KEYS == { {}, {"w"}, {"d"}, {"w", "a"}, {"w", "d"}, {"s", "d"}, {"a", "d"} }

\* Where the player stands when the frames start: next to the corners of the
\* farm and of the forest, and at four places around the trunk, none of which
\* overlaps it.  Frame intervals of any length up to 100 ms let the player
\* walk to every one of them.
WALK_PLACES ==
    { << "farm", 30, 30 >>, << "farm", 770, 570 >>, << "forest", 1570, 1170 >>,
      << "forest", 800, 510 >>, << "forest", 770, 480 >>, << "forest", 780, 460 >>,
      << "forest", 775, 505 >> }

InitWalk ==
    /\ InitEnv
    /\ \E place \in WALK_PLACES :
          state = Resumed(place[1], place[2], place[3], NoSeeds, 0, 50, NoUpgrades,
                          << "basic" >>, "basic")

NextWalk ==
    \/ \E t \in CoarseTimes, keys \in WALK_KEYS : Tick(t, keys)
    \/ SwitchArea

SpecWalk == InitWalk /\ [][NextWalk]_vars

----------------------------------------------------------------------------
(* Away: frames while the player is in the other area.  The player stands at
   chicken 0 with a watermelon, or between two bushes of the forest; plot 0
   may be growing. *)

InitAway ==
    /\ InitEnv
    /\ \E growing \in BOOLEAN :
          \E s \in { Resumed("farm", 516, 216, NoSeeds, 1, 50, NoUpgrades, << "basic" >>, "basic"),
                     Resumed("forest", 915, 600, NoSeeds, 0, 50, NoUpgrades, << "basic" >>, "basic") } :
             state = IF growing
                     THEN [s EXCEPT !.farm.plots[1] =
                              [@ EXCEPT !.planted = TRUE, !.seedType = "basic",
                                        !.plantedAt = T0, !.growthProgress = 0]]
                     ELSE s

NextAway ==
    \/ \E t \in CoarseTimes : Tick(t, {})
    \/ Interact
    \/ SwitchArea

SpecAway == InitAway /\ [][NextAway]_vars

----------------------------------------------------------------------------
(* Coop: chickens are fed, bought and upgraded, up to the top tier *)

\* coins at the start: too few for any upgrade, and enough for all of them
COOP_COINS == {50, 6500}

InitCoop ==
    /\ InitEnv
    /\ \E tier \in {"basic", "golden", "cosmic"}, coins \in COOP_COINS :
          state = Resumed("farm", 516, 216, NoSeeds, 1, coins, NoUpgrades, << "basic" >>, tier)

NextCoop ==
    \/ \E t \in CoarseTimes : Tick(t, {})
    \/ Interact
    \/ BuyNewChicken
    \/ \E chickenId \in 0..MaxChickens : UpgradeSelectedChicken(chickenId)

SpecCoop == InitCoop /\ [][NextCoop]_vars

----------------------------------------------------------------------------
(* Rewind: the wall clock is set back between a save and the next load *)

InitRewind ==
    /\ InitEnv
    /\ state = Resumed("farm", 516, 216, NoSeeds, 1, 50, NoUpgrades, << "basic" >>, "basic")

\* neither the state in memory nor the document in storage, if any, is
\* stamped later than the clock reads
NotAhead ==
    /\ state.lastUpdate <= now
    /\ IF saved = Null THEN TRUE ELSE saved[1].value.lastUpdate <= now

\* The clock is set back after a save.  While a stamp is ahead of the clock
\* the games explored have no frames and no saves, only keys and loads at the
\* clock reading reached, which keeps them finite.
NextRewind ==
    \/ /\ NotAhead
       /\ \E t \in CoarseTimes : Tick(t, {})
    \/ Interact
    \/ /\ NotAhead
       /\ Save(0)
    \/ /\ saved # Null
       /\ \E d \in 1..MaxSkew : ClockBack(d)
    \/ \E gap \in {0, COARSE_MS} : (gap # 0 => NotAhead) /\ Load(gap)

SpecRewind == InitRewind /\ [][NextRewind]_vars

----------------------------------------------------------------------------
(* Hints: the player stands 45 units from a bush or between two bushes, at
   plot 0 with a seed, or at chicken 0 with two watermelons *)

InitHint ==
    /\ InitEnv
    /\ \/ \E x \in {855, 915} :
             state = Resumed("forest", x, 600, NoSeeds, 0, 50, NoUpgrades, << "basic" >>, "basic")
       \/ state = Resumed("farm", 124, 174, [NoSeeds EXCEPT !["basic"] = 1], 0, 50,
                          NoUpgrades, << "basic" >>, "basic")
       \/ state = Resumed("farm", 516, 216, NoSeeds, 2, 50, NoUpgrades, << "basic" >>, "basic")

NextHint ==
    \/ \E t \in CoarseTimes : Tick(t, {})
    \/ Interact

SpecHint == InitHint /\ [][NextHint]_vars

----------------------------------------------------------------------------
(* Reloading: between an accepted import and the reload the timer, the
   cleanup, the keys and the frames go on *)

InitReload ==
    /\ now = T0
    /\ perf = 1000
    /\ lastTime = 0
    /\ gameStateNull = FALSE
    /\ skipSaveRef = FALSE
    /\ state = Resumed("farm", 516, 216, NoSeeds, 1, 50, NoUpgrades, << "basic" >>, "basic")
    /\ saved \in {Null, saveGame(state, T0 - COARSE_MS)}

NextReload ==
    \/ \E t \in CoarseTimes : GameLoop(t)
    \/ KeyDownE
    \/ AutoSave
    \/ Unmount
    \/ \E kind \in IMPORT_KINDS : ImportStore(kind)
    \/ Reload

SpecReload == InitReload /\ [][NextReload]_vars

----------------------------------------------------------------------------
(* Properties *)

UpgradeIndices == 0..(Len(UPGRADE_DEFINITIONS) - 1)
UpgradeDef(upgradeIndex) == UPGRADE_DEFINITIONS[upgradeIndex + 1]

\* The level derived from the stored value, and the price at a level, read
\* from the tables (not through the operators buyUpgrade uses).
DerivedLevel(s, id) == FLOAT_LEVEL[id][s.upgrades[id] + 1]
PriceAt(id, level) == FLOAT_COST[id][level + 1]

\* coins >= cost, for an integer price in coins
Covers(s, cost) == s.player.coins \div COIN_SCALE >= cost

ChickenIds == 0..MaxChickens
PlotIds == 0..MaxPlots

HasChicken(s, chickenId) == \E j \in DOMAIN s.farm.chickens : s.farm.chickens[j].id = chickenId
ChickenOf(s, chickenId) ==
    s.farm.chickens[CHOOSE j \in DOMAIN s.farm.chickens : s.farm.chickens[j].id = chickenId]
Tiers(s) == [j \in DOMAIN s.farm.chickens |-> s.farm.chickens[j].type]

\* C1: a successful buyUpgrade(index) (level below maxLevel, coins >= cost)
\* deducts exactly floor(baseCost * costMultiplier^currentLevel) coins, adds
\* exactly one effect step to the named upgrade field and leaves every other
\* upgrade field and the rest of the state unchanged.
C1_BuyUpgradeExact ==
    \A upgradeIndex \in UpgradeIndices :
        LET def == UpgradeDef(upgradeIndex)
            level == DerivedLevel(state, def.id)
            cost == PriceAt(def.id, level)
            after == buyUpgrade(state, upgradeIndex)
        IN  (level < def.maxLevel /\ Covers(state, cost)) =>
                /\ after.player.coins = state.player.coins - cost * COIN_SCALE
                /\ UpgradeValue100(def.id, after.upgrades)
                      = UpgradeValue100(def.id, state.upgrades) + def.effect100
                /\ \A other \in UPGRADE_IDS \ {def.id} :
                      after.upgrades[other] = state.upgrades[other]
                /\ [after EXCEPT !.player.coins = state.player.coins,
                                 !.upgrades = state.upgrades] = state

\* C1 witness: walkingSpeed has been bought once (1.2, whose derived level is
\* still 0) and the next purchase is affordable and goes through.
C1_Witness ==
    /\ state.upgrades["walkingSpeed"] = 1
    /\ DerivedLevel(state, "walkingSpeed") = 0
    /\ Covers(state, PriceAt("walkingSpeed", 0))
    /\ buyUpgrade(state, 1).upgrades["walkingSpeed"] = 2

\* C2: in every reachable state each upgrade's derived level is at most its
\* maxLevel, and no step lowers a derived level.
C2_LevelCappedMonotone ==
    [][\A upgradeIndex \in UpgradeIndices :
          LET def == UpgradeDef(upgradeIndex)
          IN  /\ DerivedLevel(state, def.id) <= def.maxLevel
              /\ DerivedLevel(state', def.id) <= def.maxLevel
              /\ DerivedLevel(state', def.id) >= DerivedLevel(state, def.id)]_vars

\* C2 witness: plotFertility stands at its maxLevel after the 11 additions
\* of 0.15 that the lagging derived level lets through, seedBagCapacity
\* stands at its maxLevel too, and a further purchase of either is refused,
\* for seedBagCapacity although the coins cover the price.
C2_Witness ==
    /\ DerivedLevel(state, "plotFertility") = UpgradeDef(2).maxLevel
    /\ state.upgrades["plotFertility"] = 11
    /\ buyUpgrade(state, 2) = state
    /\ DerivedLevel(state, "seedBagCapacity") = UpgradeDef(0).maxLevel
    /\ Covers(state, PriceAt("seedBagCapacity", UpgradeDef(0).maxLevel))
    /\ buyUpgrade(state, 0) = state

\* C3: every rejected command returns the state unchanged: buyUpgrade with an
\* unknown index, a maxed upgrade or coins < cost; buyNewPlot and
\* buyNewChicken with coins < cost; unlockSeedType for an unlocked type or
\* with coins < unlockCost; upgradeSelectedChicken for an id no chicken has or
\* a chicken at the top tier.
C3_RejectedUnchanged ==
    /\ \A upgradeIndex \in 0..Len(UPGRADE_DEFINITIONS) :
          (\/ upgradeIndex \notin UpgradeIndices
           \/ DerivedLevel(state, UpgradeDef(upgradeIndex).id)
                 >= UpgradeDef(upgradeIndex).maxLevel
           \/ ~Covers(state, PriceAt(UpgradeDef(upgradeIndex).id,
                                     DerivedLevel(state, UpgradeDef(upgradeIndex).id))))
             => buyUpgrade(state, upgradeIndex) = state
    /\ ~Covers(state, PLOT_COST * (Len(state.farm.plots) + 1)) => buyNewPlot(state) = state
    /\ ~Covers(state, CHICKEN_COST * (Len(state.farm.chickens) + 1))
          => buyNewChicken(state) = state
    /\ \A seedType \in SEED_TYPES :
          (InSeq(state.unlockedSeeds, seedType)
              \/ ~Covers(state, SEED_CONFIGS[seedType].unlockCost))
             => unlockSeedType(state, seedType) = state
    /\ \A chickenId \in ChickenIds :
          (~HasChicken(state, chickenId) \/ ChickenOf(state, chickenId).type = "cosmic")
             => upgradeSelectedChicken(state, chickenId) = state

\* C3 witness: a state in which every kind of rejection occurs: a maxed
\* upgrade, an unaffordable upgrade, plot and chicken, an unlocked seed, an
\* unaffordable seed, a cosmic chicken and an id no chicken has.
C3_Witness ==
    /\ DerivedLevel(state, "seedBagCapacity") = UpgradeDef(0).maxLevel
    /\ ~Covers(state, PriceAt("eggValue", DerivedLevel(state, "eggValue")))
    /\ ~Covers(state, PLOT_COST * (Len(state.farm.plots) + 1))
    /\ ~Covers(state, CHICKEN_COST * (Len(state.farm.chickens) + 1))
    /\ InSeq(state.unlockedSeeds, "silver")
    /\ ~InSeq(state.unlockedSeeds, "crystal")
    /\ ~Covers(state, SEED_CONFIGS["crystal"].unlockCost)
    /\ ChickenOf(state, 0).type = "cosmic"
    /\ ~HasChicken(state, 1)

\* C4: in any transition made by upgradeSelectedChicken a chicken's tier
\* changes only if player.coins is reduced in the same transition by exactly
\* the upgradeCost of the tier it was advanced to; with coins below that cost
\* both the tier and the coins are unchanged.
C4_TierOnlyWhenPaid ==
    \A chickenId \in ChickenIds :
        LET after == upgradeSelectedChicken(state, chickenId)
        IN  /\ \A j \in DOMAIN state.farm.chickens :
                  after.farm.chickens[j].type # state.farm.chickens[j].type =>
                      after.player.coins = state.player.coins
                          - CHICKEN_CONFIGS[after.farm.chickens[j].type].upgradeCost * COIN_SCALE
            /\ (/\ HasChicken(state, chickenId)
                /\ ChickenOf(state, chickenId).type # "cosmic"
                /\ ~Covers(state, CHICKEN_CONFIGS[
                       typeOrder[TypeIndex(ChickenOf(state, chickenId).type) + 1]].upgradeCost))
                  => /\ Tiers(after) = Tiers(state)
                     /\ after.player.coins = state.player.coins

\* C4 witness: chicken 0 has been upgraded to golden and paid for, the coins
\* left do not cover cosmic, and chicken 1 can still be upgraded to fat.
C4_Witness ==
    /\ ChickenOf(state, 0).type = "golden"
    /\ ~Covers(state, CHICKEN_CONFIGS["cosmic"].upgradeCost)
    /\ HasChicken(state, 1)
    /\ ChickenOf(state, 1).type = "basic"
    /\ Covers(state, CHICKEN_CONFIGS["fat"].upgradeCost)
    /\ upgradeSelectedChicken(state, 1) # state

\* The case of C5: an existing chicken below the top tier whose next tier the
\* coins do not cover.
Unaffordable(s, chickenId) ==
    /\ HasChicken(s, chickenId)
    /\ ChickenOf(s, chickenId).type # "cosmic"
    /\ ~Covers(s, CHICKEN_CONFIGS[
           typeOrder[TypeIndex(ChickenOf(s, chickenId).type) + 1]].upgradeCost)

\* C5 as stated: when upgradeSelectedChicken is called for an existing chicken
\* below the top tier with coins below the next tier's upgradeCost, the
\* resulting state has the tier advanced and no coins deducted.
C5_Original_TierAdvancedFree ==
    \A chickenId \in ChickenIds :
        Unaffordable(state, chickenId) =>
            LET after == upgradeSelectedChicken(state, chickenId)
            IN  /\ ChickenOf(after, chickenId).type
                      = typeOrder[TypeIndex(ChickenOf(state, chickenId).type) + 1]
                /\ after.player.coins = state.player.coins

\* C5 amended: in that case the farm-level call does build a farm with the
\* tier advanced and reports success, but upgradeSelectedChicken discards it
\* and returns the state it was given: tier and coins are unchanged.
C5_UnaffordableUpgradeDiscarded ==
    \A chickenId \in ChickenIds :
        Unaffordable(state, chickenId) =>
            /\ upgradeChicken(state.farm, chickenId).success
            /\ upgradeChicken(state.farm, chickenId).farm # state.farm
            /\ upgradeSelectedChicken(state, chickenId) = state

\* C5 witness: chicken 0 has been upgraded to fat and the coins left do not
\* cover golden.
C5_Witness ==
    /\ ChickenOf(state, 0).type = "fat"
    /\ Unaffordable(state, 0)
    /\ state.player.coins > 0

\* growthProgress as the source's formula gives it for a plot whose planting
\* lies elapsedMs in the past: min(1, elapsed / (growTime / (fertilityLevel *
\* plotFertility))), over PROGRESS_ONE.
ExpectedProgress(plot, upgrades, elapsedMs) ==
    Min(PROGRESS_ONE,
        (elapsedMs * plot.fertilityLevel
            * (100 + UpgradeDef(2).effect100 * upgrades["plotFertility"]) * 60)
          \div SEED_CONFIGS[plot.seedType].growTime)

\* C6 as stated: in every reachable state every plot's growthProgress lies
\* in [0, 1], also after a tick whose clock reading is earlier than the
\* plot's plantedAt.
C6_ProgressInUnitInterval ==
    \A i \in DOMAIN state.farm.plots :
        /\ state.farm.plots[i].growthProgress >= 0
        /\ state.farm.plots[i].growthProgress <= PROGRESS_ONE

\* C7: between planting and harvest a plot's growthProgress never decreases
\* across ticks with non-decreasing clock readings, plotFertility purchases
\* included, and after a tick it is a function of now - plantedAt and the
\* fertility values alone: the frame's deltaTime, the number of earlier ticks
\* and the progress stored before do not enter.
C7_GrowthMonotonePure ==
    [][/\ \A i \in DOMAIN state.farm.plots :
             (/\ state.farm.plots[i].planted
              /\ state'.farm.plots[i].planted
              /\ state'.farm.plots[i].plantedAt = state.farm.plots[i].plantedAt)
                => state'.farm.plots[i].growthProgress >= state.farm.plots[i].growthProgress
       /\ now' # now =>
             \A i \in DOMAIN state'.farm.plots :
                state'.farm.plots[i].planted =>
                    state'.farm.plots[i].growthProgress
                       = ExpectedProgress(state'.farm.plots[i], state'.upgrades,
                                          now' - state'.farm.plots[i].plantedAt)
       /\ \A t \in Times, deltaTime \in {STEP_MS, MAX_DELTA_TIME} :
             \A i \in DOMAIN state.farm.plots :
                (state.farm.plots[i].planted /\ t >= now) =>
                    updateFarm(state.farm, state.upgrades, deltaTime, t).farm.plots[i].growthProgress
                       = ExpectedProgress(state.farm.plots[i], state.upgrades,
                                          t - state.farm.plots[i].plantedAt)]_vars

\* C7 witness: a plot grew at plotFertility 1.0 for more than a frame, then
\* plotFertility was bought: the stored progress is still the one of the old
\* fertility and the next tick recomputes it at the new one.
C7_Witness ==
    /\ state.upgrades["plotFertility"] = 1
    /\ \E i \in DOMAIN state.farm.plots :
          /\ state.farm.plots[i].planted
          /\ now - state.farm.plots[i].plantedAt > MAX_DELTA_TIME
          /\ state.farm.plots[i].growthProgress
                = ExpectedProgress(state.farm.plots[i], NoUpgrades,
                                   now - state.farm.plots[i].plantedAt)
          /\ state.farm.plots[i].growthProgress
                < ExpectedProgress(state.farm.plots[i], state.upgrades,
                                   now - state.farm.plots[i].plantedAt)

HasPlot(s, plotId) == \E i \in DOMAIN s.farm.plots : s.farm.plots[i].id = plotId
PlotOf(s, plotId) == s.farm.plots[CHOOSE i \in DOMAIN s.farm.plots : s.farm.plots[i].id = plotId]
Mature(plot) == plot.planted /\ plot.growthProgress >= PROGRESS_ONE

\* The plot an interaction on the farm is about, if any.
NearbyPlot(s) == getNearbyPlot(s.farm, s.player.x, s.player.y)

\* C8: harvestPlot on a plot that does not exist, is not planted or has
\* growthProgress < 1 yields 0 watermelons and leaves every plot unchanged;
\* an interaction at such a plot leaves the player's watermelons unchanged.
C8_EarlyHarvestNothing ==
    /\ \A plotId \in PlotIds :
          (\/ ~HasPlot(state, plotId)
           \/ ~PlotOf(state, plotId).planted
           \/ PlotOf(state, plotId).growthProgress < PROGRESS_ONE)
             => /\ harvestPlot(state.farm, plotId).watermelons = 0
                /\ harvestPlot(state.farm, plotId).farm.plots = state.farm.plots
    /\ (/\ state.currentArea = "farm"
        /\ NearbyPlot(state) # Null
        /\ ~Mature(NearbyPlot(state)[1]))
          => handleInteraction(state, now).player.watermelons = state.player.watermelons

\* C8 witness: the player, holding a watermelon from an earlier harvest,
\* stands at a planted plot that is part-grown, and a plot id that no plot
\* has exists.
C8_Witness ==
    /\ state.currentArea = "farm"
    /\ state.player.watermelons > 0
    /\ NearbyPlot(state) # Null
    /\ NearbyPlot(state)[1].planted
    /\ NearbyPlot(state)[1].growthProgress > 0
    /\ NearbyPlot(state)[1].growthProgress < PROGRESS_ONE
    /\ ~HasPlot(state, MaxPlots)

\* C9: harvesting a planted plot with growthProgress >= 1 resets it to empty
\* (planted false, seedType null, plantedAt null, growthProgress 0), adds
\* exactly the planted seed type's yield to player.watermelons and changes no
\* other plot.
C9_HarvestResetsAndYields ==
    /\ \A plotId \in PlotIds :
          (HasPlot(state, plotId) /\ Mature(PlotOf(state, plotId))) =>
              LET harvest == harvestPlot(state.farm, plotId)
              IN  /\ harvest.watermelons = SEED_CONFIGS[PlotOf(state, plotId).seedType].yield
                  /\ Len(harvest.farm.plots) = Len(state.farm.plots)
                  /\ \A i \in DOMAIN state.farm.plots :
                        harvest.farm.plots[i] =
                            IF state.farm.plots[i].id = plotId
                            THEN [state.farm.plots[i] EXCEPT
                                    !.planted = FALSE, !.seedType = "null",
                                    !.plantedAt = 0, !.growthProgress = 0]
                            ELSE state.farm.plots[i]
                  /\ harvest.farm.chickens = state.farm.chickens
    /\ (/\ state.currentArea = "farm"
        /\ NearbyPlot(state) # Null
        /\ Mature(NearbyPlot(state)[1]))
          => LET after == handleInteraction(state, now)
                 plotId == NearbyPlot(state)[1].id
             IN  /\ after.player.watermelons = state.player.watermelons
                       + SEED_CONFIGS[NearbyPlot(state)[1].seedType].yield
                 /\ after.farm = harvestPlot(state.farm, plotId).farm
                 /\ ~PlotOf(after, plotId).planted
                 /\ [after EXCEPT !.farm = state.farm,
                                  !.player.watermelons = state.player.watermelons] = state

\* C9 witness: the player stands at a mature plot while another plot is
\* mature as well, and the interaction harvests the nearby one only.
C9_Witness ==
    /\ state.currentArea = "farm"
    /\ NearbyPlot(state) # Null
    /\ Mature(NearbyPlot(state)[1])
    /\ \E i \in DOMAIN state.farm.plots :
          /\ state.farm.plots[i].id # NearbyPlot(state)[1].id
          /\ Mature(state.farm.plots[i])
          /\ Mature(handleInteraction(state, now).farm.plots[i])
    /\ handleInteraction(state, now).player.watermelons > state.player.watermelons

NearbyChicken(s) == getNearbyChicken(s.farm, s.player.x, s.player.y)

\* feedDuration(tier) * 1000 * chickenHunger, in ms
FedFor(type, upgrades) ==
    (CHICKEN_CONFIGS[type].feedDuration * 1000
        * (100 + UpgradeDef(3).effect100 * upgrades["chickenHunger"])) \div 100

\* C10: feeding a chicken at time T sets its fedUntil to exactly
\* T + feedDuration(tier) * 1000 * chickenHunger and consumes exactly one
\* watermelon; a tick treats the chicken as fed (it lays eggs) exactly when
\* the tick's clock reading is strictly less than fedUntil.
C10_FeedWindow ==
    /\ \A chickenId \in ChickenIds :
          LET feed == feedChicken(state.farm, chickenId, state.upgrades, now)
          IN  IF HasChicken(state, chickenId)
              THEN /\ feed.watermelonsUsed = 1
                   /\ \A j \in DOMAIN state.farm.chickens :
                         feed.farm.chickens[j] =
                            IF state.farm.chickens[j].id = chickenId
                            THEN [state.farm.chickens[j] EXCEPT !.fedUntil =
                                     now + FedFor(state.farm.chickens[j].type, state.upgrades)]
                            ELSE state.farm.chickens[j]
              ELSE feed.watermelonsUsed = 0 /\ feed.farm = state.farm
    /\ (/\ state.currentArea = "farm"
        /\ NearbyPlot(state) = Null
        /\ NearbyChicken(state) # Null
        /\ state.player.watermelons > 0)
          => LET after == handleInteraction(state, now)
             IN  /\ after.player.watermelons = state.player.watermelons - 1
                 /\ ChickenOf(after, NearbyChicken(state)[1].id).fedUntil
                       = now + FedFor(NearbyChicken(state)[1].type, state.upgrades)
    /\ \A t \in Times, deltaTime \in {STEP_MS, MAX_DELTA_TIME} :
          LET update == updateFarm(state.farm, state.upgrades, deltaTime, t)
          IN  /\ \A j \in DOMAIN state.farm.chickens :
                    (update.farm.chickens[j].eggsProduced > state.farm.chickens[j].eggsProduced)
                       <=> (t < state.farm.chickens[j].fedUntil)
              /\ (update.eggsProduced > 0)
                    <=> (\E j \in DOMAIN state.farm.chickens : t < state.farm.chickens[j].fedUntil)

\* C10 witness: a chicken was fed, laid eggs, and the clock now reads
\* exactly its fedUntil, the first instant at which a tick lays nothing.
C10_Witness ==
    /\ state.upgrades["chickenHunger"] = 0
    /\ state.player.eggs > 0
    /\ \E j \in DOMAIN state.farm.chickens :
          /\ state.farm.chickens[j].fedUntil = now
          /\ state.farm.chickens[j].eggsProduced > 0
          /\ updateFarm(state.farm, state.upgrades, STEP_MS, now).eggsProduced = 0

\* eggsProduced of chicken 0 when play resumes, by tier
BaselineEggs(type) ==
    Resumed("farm", 516, 216, NoSeeds, 1, 50, NoUpgrades, << "basic" >>, type)
        .farm.chickens[1].eggsProduced

\* C11 as stated: for a chicken fed once at time T (no re-feed, no tier
\* change) the eggs credited by live ticks over the fed window total
\* eggsPerMinute/60 * (fedUntil - T)/1000, whatever the schedule of frames.
\* Stated for the states in which the window is over; SpecFeed holds one
\* watermelon and no purchase, so the chicken is fed once and T is
\* fedUntil - feedDuration * 1000.
C11_EggsEqualFedWindow ==
    \A j \in DOMAIN state.farm.chickens :
        (state.farm.chickens[j].fedUntil > 0 /\ now >= state.farm.chickens[j].fedUntil)
            => state.farm.chickens[j].eggsProduced - BaselineEggs(state.farm.chickens[j].type)
                  = CHICKEN_CONFIGS[state.farm.chickens[j].type].eggsPerMinute
                       * (FedFor(state.farm.chickens[j].type, state.upgrades) \div STEP_MS)

\* The state a stored document holds.
SavedState == saved[1].value

\* eggsPerMinute/60000 * ms eggs, in egg units
EggsIn(type, ms) == (CHICKEN_CONFIGS[type].eggsPerMinute * ms) \div (60000 \div EGG_SCALE)

\* min(max(0, fedUntil - lastUpdate), min(clock - lastUpdate, 24h))
OfflineFedTime(chicken, lastUpdate, clock) ==
    LET remaining == IF chicken.fedUntil > lastUpdate THEN chicken.fedUntil - lastUpdate ELSE 0
        offlineTime == IF clock - lastUpdate < 24 * 3600 * 1000
                       THEN clock - lastUpdate ELSE 24 * 3600 * 1000
    IN  IF remaining < offlineTime THEN remaining ELSE offlineTime

\* C12: offline catch-up credits each chicken eggsPerMinute/60000 *
\* min(max(0, fedUntil - lastUpdate), min(now - lastUpdate, 24h)) eggs; a
\* basic chicken with fedUntil = lastUpdate + 60 s loaded after 2 hours is
\* credited exactly 60 seconds of production.
C12_OfflineEggsBounded ==
    \A gap \in OFFLINE_GAPS :
        saved # Null =>
            LET s == SavedState
                clock == now + gap
                offline == calculateOfflineProgress(s.farm, s.upgrades, s.lastUpdate, clock)
                credit == [j \in DOMAIN s.farm.chickens |->
                              EggsIn(s.farm.chickens[j].type,
                                     OfflineFedTime(s.farm.chickens[j], s.lastUpdate, clock))]
            IN  /\ \A j \in DOMAIN s.farm.chickens :
                      /\ offline.farm.chickens[j].eggsProduced
                            = s.farm.chickens[j].eggsProduced + credit[j]
                      /\ (/\ s.farm.chickens[j].type = "basic"
                          /\ s.farm.chickens[j].fedUntil = s.lastUpdate + 60 * 1000
                          /\ clock = s.lastUpdate + 2 * 3600 * 1000)
                            => offline.farm.chickens[j].eggsProduced
                                  = s.farm.chickens[j].eggsProduced + EGG_SCALE
                /\ offline.eggsProduced = SumSeq(credit)
                /\ loadGame(saved, clock)[1].player.eggs = s.player.eggs + SumSeq(credit)

\* C12 witness: a basic chicken was fed and the game saved at once
\* (fedUntil = lastUpdate + 60 s); the page was opened 2 hours later and the
\* chicken holds one egg more than in the save.
C12_Witness ==
    /\ saved # Null
    /\ SavedState.farm.chickens[1].type = "basic"
    /\ SavedState.farm.chickens[1].fedUntil = SavedState.lastUpdate + 60 * 1000
    /\ now = SavedState.lastUpdate + 2 * 3600 * 1000
    /\ state.lastUpdate = now
    /\ state.farm.chickens[1].eggsProduced
          = SavedState.farm.chickens[1].eggsProduced + EGG_SCALE
    /\ state.player.eggs = SavedState.player.eggs + EGG_SCALE

\* upgrades.seedBagCapacity: 10 and 5 more per purchase
Capacity(s) == 10 + 5 * s.upgrades["seedBagCapacity"]

\* A field seed the player can collect: not collected, of an unlocked type,
\* at most 40 units away.
Available(s, seed) ==
    /\ ~seed.collected
    /\ \E n \in DOMAIN s.unlockedSeeds : s.unlockedSeeds[n] = seed.type
    /\ (seed.x - s.player.x) * (seed.x - s.player.x)
         + (seed.y - s.player.y) * (seed.y - s.player.y)
           <= (40 * POS_SCALE) * (40 * POS_SCALE)

HasTarget(s) == \E i \in DOMAIN s.forest.seeds : Available(s, s.forest.seeds[i])

\* The seed an interaction is about: the first available one in field order.
TargetIndex(s) ==
    CHOOSE i \in DOMAIN s.forest.seeds :
        /\ Available(s, s.forest.seeds[i])
        /\ \A k \in DOMAIN s.forest.seeds : Available(s, s.forest.seeds[k]) => i <= k

\* the seed as collectSeed leaves it
Taken(seed, clock) == [seed EXCEPT !.collected = TRUE, !.respawnTime = clock + 15000]

\* C13: in every reachable state, for every seed type, player.seeds[type]
\* is between 0 and upgrades.seedBagCapacity inclusive.
C13_SeedsWithinCapacity ==
    \A type \in SEED_TYPES :
        state.player.seeds[type] >= 0 /\ state.player.seeds[type] <= Capacity(state)

\* C13 witness: the bag was enlarged to 15 and filled to 15 by collections,
\* and a further seed is at hand.
C13_Witness ==
    /\ state.upgrades["seedBagCapacity"] = 1
    /\ state.player.seeds["basic"] = Capacity(state)
    /\ state.currentArea = "forest"
    /\ HasTarget(state)
    /\ state.forest.seeds[TargetIndex(state)].type = "basic"

\* C14: an interaction in the forest at an available unlocked seed whose type
\* is at seedBagCapacity leaves the inventory unchanged, yet the field seed is
\* marked collected with the respawn deadline now + 15000 ms.
C14_FullBagSeedLost ==
    (/\ state.currentArea = "forest"
     /\ HasTarget(state)
     /\ state.player.seeds[state.forest.seeds[TargetIndex(state)].type] >= Capacity(state))
       => LET after == handleInteraction(state, now)
              i == TargetIndex(state)
          IN  /\ after.player.seeds = state.player.seeds
              /\ after.forest.seeds[i] = Taken(state.forest.seeds[i], now)
              /\ after = [state EXCEPT !.forest.seeds[i] = Taken(state.forest.seeds[i], now)]

\* C14 witness: the bag holds 10 basic seeds at capacity 10, one bush in
\* range was emptied at this clock reading without the count changing, and
\* the other bush in range still offers a basic seed.
C14_Witness ==
    /\ state.currentArea = "forest"
    /\ Capacity(state) = 10
    /\ state.player.seeds["basic"] = 10
    /\ state.forest.seeds[1].collected
    /\ state.forest.seeds[1].respawnTime = now + 15000
    /\ HasTarget(state)
    /\ state.forest.seeds[TargetIndex(state)].type = "basic"

\* C15: an interaction in the forest at an available unlocked seed within 40
\* units whose type is below capacity adds exactly 1 seed of that type, makes
\* exactly one field seed collected with respawnTime = now + 15000 ms, and
\* leaves coins, watermelons and all other seeds unchanged.
C15_CollectOne ==
    (/\ state.currentArea = "forest"
     /\ HasTarget(state)
     /\ state.player.seeds[state.forest.seeds[TargetIndex(state)].type] < Capacity(state))
       => LET after == handleInteraction(state, now)
              i == TargetIndex(state)
              type == state.forest.seeds[i].type
          IN  /\ after.player.seeds[type] = state.player.seeds[type] + 1
              /\ \A other \in SEED_TYPES \ {type} :
                    after.player.seeds[other] = state.player.seeds[other]
              /\ {k \in DOMAIN state.forest.seeds :
                     after.forest.seeds[k] # state.forest.seeds[k]} = {i}
              /\ after.forest.seeds[i] = Taken(state.forest.seeds[i], now)
              /\ after.player.coins = state.player.coins
              /\ after.player.watermelons = state.player.watermelons
              /\ [after EXCEPT !.forest.seeds = state.forest.seeds,
                               !.player.seeds = state.player.seeds] = state

\* C15 witness: two seeds were in range; one interaction took the first
\* (one seed gained, deadline now + 15000) and the second is still there.
C15_Witness ==
    /\ state.currentArea = "forest"
    /\ state.player.seeds["basic"] = 1
    /\ state.forest.seeds[1].collected
    /\ state.forest.seeds[1].respawnTime = now + 15000
    /\ HasTarget(state)
    /\ TargetIndex(state) = 3
    /\ state.player.seeds[state.forest.seeds[3].type] < Capacity(state)

\* C16: buyNewPlot with n plots costs PLOT_COST * (n + 1) and buyNewChicken
\* with m chickens costs CHICKEN_COST * (m + 1); on success exactly that
\* amount is deducted and exactly one empty plot (one hungry basic chicken) is
\* appended; with fewer coins the counts and the balance are unchanged.
C16_PlotAndChickenPrice ==
    LET n == Len(state.farm.plots)
        m == Len(state.farm.chickens)
        plotBought == buyNewPlot(state)
        chickenBought == buyNewChicken(state)
    IN  /\ IF Covers(state, 100 * (n + 1))
           THEN /\ plotBought.player.coins = state.player.coins - 100 * (n + 1) * COIN_SCALE
                /\ Len(plotBought.farm.plots) = n + 1
                /\ SubSeq(plotBought.farm.plots, 1, n) = state.farm.plots
                /\ ~plotBought.farm.plots[n + 1].planted
                /\ plotBought.farm.plots[n + 1].seedType = "null"
                /\ plotBought.farm.plots[n + 1].plantedAt = 0
                /\ plotBought.farm.plots[n + 1].growthProgress = 0
                /\ plotBought.farm.plots[n + 1].id = n
                /\ plotBought.farm.chickens = state.farm.chickens
                /\ [plotBought EXCEPT !.player.coins = state.player.coins,
                                      !.farm.plots = state.farm.plots] = state
           ELSE /\ Len(plotBought.farm.plots) = n
                /\ Len(plotBought.farm.chickens) = m
                /\ plotBought.player.coins = state.player.coins
        /\ IF Covers(state, 150 * (m + 1))
           THEN /\ chickenBought.player.coins
                      = state.player.coins - 150 * (m + 1) * COIN_SCALE
                /\ Len(chickenBought.farm.chickens) = m + 1
                /\ SubSeq(chickenBought.farm.chickens, 1, m) = state.farm.chickens
                /\ chickenBought.farm.chickens[m + 1].type = "basic"
                /\ chickenBought.farm.chickens[m + 1].fedUntil = 0
                /\ chickenBought.farm.chickens[m + 1].eggsProduced = 0
                /\ chickenBought.farm.chickens[m + 1].id = m
                /\ chickenBought.farm.plots = state.farm.plots
                /\ [chickenBought EXCEPT !.player.coins = state.player.coins,
                                         !.farm.chickens = state.farm.chickens] = state
           ELSE /\ Len(chickenBought.farm.chickens) = m
                /\ Len(chickenBought.farm.plots) = n
                /\ chickenBought.player.coins = state.player.coins

\* C16 witness: the third plot (300) and the second chicken (300) were
\* bought from 600 coins, and neither a fourth plot nor a third chicken is
\* affordable.
C16_Witness ==
    /\ Len(state.farm.plots) = 3
    /\ Len(state.farm.chickens) = 2
    /\ state.upgrades = NoUpgrades
    /\ state.player.coins < 50 * COIN_SCALE
    /\ buyNewPlot(state) = state
    /\ buyNewChicken(state) = state

\* C17: unlockedSeeds is append-only across every step: it always contains
\* basic, no entry is removed or reordered, no type appears twice, and a type
\* is appended only by a step that deducts exactly that type's unlockCost.
C17_UnlockedAppendOnly ==
    [][LET old == state.unlockedSeeds
           new == state'.unlockedSeeds
       IN  /\ InSeq(new, "basic")
           /\ \A i, j \in DOMAIN new : new[i] = new[j] => i = j
           /\ Len(new) >= Len(old)
           /\ SubSeq(new, 1, Len(old)) = old
           /\ Len(new) <= Len(old) + 1
           /\ Len(new) = Len(old) + 1 =>
                 /\ new[Len(new)] \in SEED_TYPES
                 /\ state' = [state EXCEPT
                        !.player.coins =
                            @ - SEED_CONFIGS[new[Len(new)]].unlockCost * COIN_SCALE,
                        !.unlockedSeeds = new]
                 /\ Covers(state, SEED_CONFIGS[new[Len(new)]].unlockCost)
    ]_vars

\* C17 witness: gold was unlocked before silver, so the list is in purchase
\* order, and unlocking either again is rejected.
C17_Witness ==
    /\ state.unlockedSeeds = << "basic", "gold", "silver" >>
    /\ state.upgrades = NoUpgrades
    /\ state.player.coins = 0
    /\ unlockSeedType(state, "gold") = state
    /\ unlockSeedType(state, "silver") = state

\* C18: currentArea changes only through switchArea, which toggles
\* forest <-> farm and puts the player at the centre of the new area; frames,
\* interactions, purchases, unlocks and zooming never change currentArea, and
\* switchArea changes nothing but currentArea and the player's x and y.
C18_AreaOnlyBySwitch ==
    [][LET other == IF state.currentArea = "forest" THEN "farm" ELSE "forest"
           switched == switchArea(state)
       IN  /\ state'.currentArea # state.currentArea =>
                 /\ state'.currentArea = other
                 /\ state' = switched
           /\ switched.currentArea = other
           /\ switched.player.x = IF other = "forest" THEN P(FOREST_WIDTH) \div 2
                                  ELSE P(FARM_WIDTH) \div 2
           /\ switched.player.y = IF other = "forest" THEN P(FOREST_HEIGHT) \div 2
                                  ELSE P(FARM_HEIGHT) \div 2
           /\ [switched EXCEPT !.currentArea = state.currentArea,
                               !.player.x = state.player.x,
                               !.player.y = state.player.y] = state
           /\ handleInteraction(state, now).currentArea = state.currentArea
           /\ \A upgradeIndex \in 0..Len(UPGRADE_DEFINITIONS) :
                 buyUpgrade(state, upgradeIndex).currentArea = state.currentArea
           /\ buyNewPlot(state).currentArea = state.currentArea
           /\ buyNewChicken(state).currentArea = state.currentArea
           /\ \A chickenId \in 0..MaxChickens :
                 upgradeSelectedChicken(state, chickenId).currentArea = state.currentArea
           /\ \A seedType \in SEED_TYPES :
                 unlockSeedType(state, seedType).currentArea = state.currentArea
           /\ \A delta \in WHEEL_DELTAS :
                 handleZoom(state, delta).currentArea = state.currentArea
    ]_vars

\* C18 witness: back on the farm, at its centre, after a planting, a plot
\* purchase and two area switches.
C18_Witness ==
    /\ state.currentArea = "farm"
    /\ state.player.x = P(FARM_WIDTH) \div 2
    /\ state.player.y = P(FARM_HEIGHT) \div 2
    /\ state.farm.plots[1].planted
    /\ Len(state.farm.plots) = 3
    /\ switchArea(switchArea(state)) = state

\* The exact value of zoom + delta * 0.1, in units of 2^-56 as two words
ExactZoomSum(zoom, delta) ==
    DoubleNorm(zoom[1] + delta * DOUBLE_TENTH[1], zoom[2] + delta * DOUBLE_TENTH[2])

\* a and b differ by at most one unit in the last place of a double below 4
WithinRounding(a, b) ==
    /\ a[1] - b[1] \in -1..1
    /\ (a[1] - b[1]) * DOUBLE_WORD + (a[2] - b[2]) \in -16..16

\* C19: zoom stays within [0.5, 2.0]; each handleZoom call moves zoom by
\* delta * 0.1 (as a double sum) unless that leaves the range, in which case
\* zoom becomes the nearer bound; nothing else in the state changes.
C19_ZoomClamped ==
    /\ ~DoubleLess(state.zoom, DOUBLE_HALF)
    /\ ~DoubleLess(DOUBLE_TWO, state.zoom)
    /\ \A delta \in WHEEL_DELTAS :
          LET zoomed == handleZoom(state, delta)
              exact == ExactZoomSum(state.zoom, delta)
          IN  /\ IF DoubleLess(exact, DOUBLE_HALF) THEN zoomed.zoom = DOUBLE_HALF
                 ELSE IF DoubleLess(DOUBLE_TWO, exact) THEN zoomed.zoom = DOUBLE_TWO
                 ELSE WithinRounding(zoomed.zoom, exact)
              /\ ~DoubleLess(zoomed.zoom, DOUBLE_HALF)
              /\ ~DoubleLess(DOUBLE_TWO, zoomed.zoom)
              /\ delta = 0 => zoomed = state
              /\ [zoomed EXCEPT !.zoom = state.zoom] = state

\* C19 witness: zoom is at the upper bound and a further step in is clamped,
\* while a step out leaves the bound.
C19_Witness ==
    /\ state.zoom = DOUBLE_TWO
    /\ handleZoom(state, 1) = state
    /\ DoubleLess(handleZoom(state, -1).zoom, DOUBLE_TWO)
    /\ state.currentArea = "forest"

\* C20: saveGame followed by loadGame at the clock reading of the save (zero
\* elapsed time) yields a state equal to the saved one in every field except
\* lastUpdate.
C20_SaveLoadRoundTrip ==
    saved # Null =>
        LET loaded == loadGame(saved, SavedState.lastUpdate)
        IN  /\ loaded # Null
            /\ [loaded[1] EXCEPT !.lastUpdate = SavedState.lastUpdate] = SavedState

\* The part of the fed window of a chicken inside the interval [from, to],
\* no longer than 24 hours
FedWithin(chicken, from, to) ==
    LET upTo == IF chicken.fedUntil < to THEN chicken.fedUntil ELSE to
        length == IF upTo > from THEN upTo - from ELSE 0
    IN  IF length < 24 * 3600 * 1000 THEN length ELSE 24 * 3600 * 1000

\* C21: loadGame uses the lastUpdate stored in the document for the catch-up
\* and stamps the returned state with the load time: a load credits only the
\* interval from the save to the load, and a later load of a save of the
\* loaded state credits only the interval after the first load, so that no
\* interval is credited twice.
C21_CatchUpOncePerInterval ==
    saved # Null =>
        \A gap1 \in OFFLINE_GAPS, gap2 \in OFFLINE_GAPS \ {MAX_OFFLINE_TIME + 3600 * 1000} :
            LET s == SavedState
                t1 == now + gap1
                t2 == t1 + gap2
                first == loadGame(saved, t1)[1]
                second == loadGame(saveGame(first, t1), t2)[1]
                direct == loadGame(saved, t2)[1]
            IN  /\ first.lastUpdate = t1
                /\ second.lastUpdate = t2
                /\ \A j \in DOMAIN s.farm.chickens :
                      LET hen == s.farm.chickens[j]
                      IN  /\ first.farm.chickens[j].eggsProduced
                                = hen.eggsProduced
                                    + EggsIn(hen.type, FedWithin(hen, s.lastUpdate, t1))
                          /\ second.farm.chickens[j].eggsProduced
                                = first.farm.chickens[j].eggsProduced
                                    + EggsIn(hen.type, FedWithin(hen, t1, t2))
                          /\ t2 - s.lastUpdate <= 24 * 3600 * 1000 =>
                                second.farm.chickens[j].eggsProduced
                                    = direct.farm.chickens[j].eggsProduced
                /\ t2 - s.lastUpdate <= 24 * 3600 * 1000 =>
                      /\ second.player.eggs = direct.player.eggs
                      /\ second.player.coins = direct.player.coins

\* C21 witness: a basic chicken fed for 60 s was saved, loaded one coarse step
\* later (a quarter of an egg), saved again and loaded 2 hours later: it holds
\* exactly the one egg of its fed window.
C21_Witness ==
    /\ saved # Null
    /\ SavedState.lastUpdate = T0 + COARSE_MS
    /\ SavedState.farm.chickens[1].fedUntil = T0 + 60 * 1000
    /\ SavedState.farm.chickens[1].eggsProduced = EGG_SCALE \div 4
    /\ now = SavedState.lastUpdate + 2 * 3600 * 1000
    /\ state.lastUpdate = now
    /\ state.farm.chickens[1].eggsProduced = EGG_SCALE

\* The stored document is absent or is not a JSON text
Unreadable(storage) == storage = Null \/ storage[1].format # "json"

\* A game as createInitialState makes it at the clock reading given
FreshGame(s, clock) ==
    /\ s.currentArea = "forest"
    /\ s.player.x = P(FOREST_WIDTH) \div 2
    /\ s.player.y = P(FOREST_HEIGHT) \div 2
    /\ s.player.coins = 50 * COIN_SCALE
    /\ s.player.eggs = 0
    /\ s.player.watermelons = 0
    /\ \A t \in SEED_TYPES : s.player.seeds[t] = 0
    /\ \A id \in UPGRADE_IDS : s.upgrades[id] = 0
    /\ s.unlockedSeeds = << "basic" >>
    /\ s.totalCoinsEarned = 0
    /\ s.zoom = DOUBLE_ONE
    /\ s.lastUpdate = clock
    /\ Len(s.farm.plots) = 2
    /\ \A i \in DOMAIN s.farm.plots : ~s.farm.plots[i].planted
    /\ Len(s.farm.chickens) = 1
    /\ s.farm.chickens[1].fedUntil = 0
    /\ s.farm.chickens[1].eggsProduced = 0
    /\ \A i \in DOMAIN s.forest.seeds : ~s.forest.seeds[i].collected

\* C22: loadGame gives null (it does not throw) when the stored document is
\* absent or cannot be parsed; the page then starts from a freshly created
\* initial state, and the stored document is not modified by the failed load.
C22_FailedLoadStartsFresh ==
    [][/\ \A storage \in {Null, Some(WF1_TEXT), Some(OTHER_TEXT), Some(OTHER_JSON), saved} :
             Unreadable(storage) \/ storage = Some(OTHER_JSON)
                => loadGame(storage, now) = Null
       /\ (Unreadable(saved) \/ saved = Some(OTHER_JSON)) /\ (\E gap \in {0, COARSE_MS} : Load(gap))
             => /\ FreshGame(state', now')
                /\ saved' = saved
    ]_vars

\* C22 witness: the page was opened on a stored text that is not JSON, which
\* is still stored, and a new game is running.
C22_Witness ==
    /\ saved = Some(OTHER_TEXT)
    /\ loadGame(saved, now) = Null
    /\ FreshGame(state, now)
    /\ now = T0 + COARSE_MS
    /\ perf = 1000

\* C23: importSave rejects every file whose content does not start with the
\* tag WF1: and then leaves the game state, the stored document and the
\* skip-save flag untouched; a tagged file is accepted.
C23_ImportRejectsUntagged ==
    [][/\ \A document \in {WF1_TEXT, OTHER_TEXT, OTHER_JSON, JSON_stringify(state)},
             skipSave \in BOOLEAN :
             LET done == importSave(document, Some(state), saved, skipSave)
             IN  IF document = WF1_TEXT
                 THEN done.reload /\ done.storage = Some(document)
                 ELSE /\ ~done.reload
                      /\ done.gameState = Some(state)
                      /\ done.storage = saved
                      /\ done.skipSave = skipSave
       /\ \A kind \in IMPORT_KINDS :
             /\ kind = "exported" => saved # Null
             /\ ImportFile(kind) # WF1_TEXT
             /\ ImportSave(kind)
             => UNCHANGED vars
       /\ ImportSave("tagged") => saved' = Some(WF1_TEXT)
    ]_vars

\* C23 witness: the game started anew on an unreadable document and was
\* saved one coarse step later, so the file exportSave writes is that JSON
\* text, which importSave rejects.
C23_Witness ==
    /\ saved # Null
    /\ saved[1].format = "json"
    /\ HasGameFields(saved[1].value)
    /\ FreshGame(saved[1].value, T0 + COARSE_MS)
    /\ ImportFile("exported") = saved[1]
    /\ importSave(saved[1], Some(state), saved, FALSE)
          = [gameState |-> Some(state), storage |-> saved, skipSave |-> FALSE,
             reload |-> FALSE]

\* C24: in every state reachable by commands and live frames the player's
\* coins and watermelons are not negative: no purchase takes more coins than
\* the player holds, and feeding takes a watermelon only from a player who
\* holds at least one.
C24_ResourcesNonNegative ==
    /\ state.player.coins >= 0
    /\ state.player.watermelons >= 0
    /\ \A bought \in {buyUpgrade(state, upgradeIndex) : upgradeIndex \in 0..Len(UPGRADE_DEFINITIONS)}
                   \cup {buyNewPlot(state), buyNewChicken(state)}
                   \cup {upgradeSelectedChicken(state, chickenId) : chickenId \in ChickenIds}
                   \cup {unlockSeedType(state, seedType) : seedType \in SEED_TYPES} :
          /\ bought.player.coins >= 0
          /\ bought.player.coins <= state.player.coins
          /\ bought.player.watermelons = state.player.watermelons
    /\ LET acted == handleInteraction(state, now)
       IN  /\ acted.player.watermelons >= 0
           /\ acted.player.coins = state.player.coins
           /\ acted.player.watermelons < state.player.watermelons =>
                 /\ state.player.watermelons >= 1
                 /\ acted.player.watermelons = state.player.watermelons - 1
           /\ state.player.watermelons = 0 => acted.farm.chickens = state.farm.chickens

\* C24 witness: the last watermelon was fed to the chicken the player stands
\* at and the coins do not cover a plot: a further interaction and a plot
\* purchase are both refused.
C24_Witness ==
    /\ state.player.watermelons = 0
    /\ NearbyPlot(state) = Null
    /\ NearbyChicken(state) # Null
    /\ NearbyChicken(state)[1].fedUntil > now
    /\ handleInteraction(state, now) = state
    /\ state.player.coins < 300 * COIN_SCALE
    /\ Len(state.farm.plots) = 2
    /\ buyNewPlot(state) = state

\* The seed type an interaction at an empty plot plants: the rarest type the
\* player holds and has unlocked, "none" if there is none
RarestHeld(s) ==
    LET held(t) == s.player.seeds[t] >= 1 /\ \E n \in DOMAIN s.unlockedSeeds : s.unlockedSeeds[n] = t
    IN  IF held("crystal") THEN "crystal"
        ELSE IF held("gold") THEN "gold"
        ELSE IF held("silver") THEN "silver"
        ELSE IF held("basic") THEN "basic"
        ELSE "none"

\* C25: an interaction on the farm near an empty plot plants the rarest seed
\* type (crystal > gold > silver > basic) the player holds and has unlocked,
\* takes exactly one seed of that type, and sets the plot to planted with
\* plantedAt = now and growthProgress = 0; with no such seed the state is
\* unchanged.
C25_PlantsRarestHeld ==
    (state.currentArea = "farm" /\ NearbyPlot(state) # Null /\ ~NearbyPlot(state)[1].planted) =>
        LET acted == handleInteraction(state, now)
            target == CHOOSE i \in DOMAIN state.farm.plots :
                          state.farm.plots[i].id = NearbyPlot(state)[1].id
            type == RarestHeld(state)
        IN  IF type = "none" THEN acted = state
            ELSE /\ acted.player.seeds = [state.player.seeds EXCEPT ![type] = @ - 1]
                 /\ acted.farm.plots[target]
                       = [state.farm.plots[target] EXCEPT !.planted = TRUE,
                                                          !.seedType = type,
                                                          !.plantedAt = now,
                                                          !.growthProgress = 0]
                 /\ \A i \in DOMAIN state.farm.plots \ {target} :
                       acted.farm.plots[i] = state.farm.plots[i]
                 /\ [acted EXCEPT !.player.seeds = state.player.seeds,
                                  !.farm.plots = state.farm.plots] = state

\* C25 witness: holding one basic and one silver seed, the player planted the
\* silver one in plot 0 and still holds the basic one.
C25_Witness ==
    /\ state.currentArea = "farm"
    /\ state.farm.plots[1].planted
    /\ state.farm.plots[1].seedType = "silver"
    /\ state.farm.plots[1].plantedAt = now
    /\ state.farm.plots[1].growthProgress = 0
    /\ state.player.seeds["basic"] = 1
    /\ state.player.seeds["silver"] = 0

\* Some plot / some chicken lies within 50 units of the player
PlotInRange(s) ==
    \E i \in DOMAIN s.farm.plots :
        (s.farm.plots[i].x + 24 * POS_SCALE - s.player.x) * (s.farm.plots[i].x + 24 * POS_SCALE - s.player.x)
          + (s.farm.plots[i].y + 24 * POS_SCALE - s.player.y) * (s.farm.plots[i].y + 24 * POS_SCALE - s.player.y)
            <= (50 * POS_SCALE) * (50 * POS_SCALE)

ChickenInRange(s) ==
    \E j \in DOMAIN s.farm.chickens :
        (s.farm.chickens[j].x + 16 * POS_SCALE - s.player.x) * (s.farm.chickens[j].x + 16 * POS_SCALE - s.player.x)
          + (s.farm.chickens[j].y + 16 * POS_SCALE - s.player.y) * (s.farm.chickens[j].y + 16 * POS_SCALE - s.player.y)
            <= (50 * POS_SCALE) * (50 * POS_SCALE)

\* C26: on the farm, with a plot in range an interaction acts on plots only
\* and feeds no chicken, even when it does nothing to the plot; a chicken is
\* fed only when no plot is in range, a chicken is in range and the player
\* holds at least one watermelon.
C26_PlotBeforeChicken ==
    state.currentArea = "farm" =>
        LET acted == handleInteraction(state, now)
            fed == \/ acted.farm.chickens # state.farm.chickens
                   \/ acted.player.watermelons < state.player.watermelons
        IN  /\ PlotInRange(state) =>
                  /\ ~fed
                  /\ [acted EXCEPT !.farm.plots = state.farm.plots,
                                   !.player.seeds = state.player.seeds,
                                   !.player.watermelons = state.player.watermelons] = state
            /\ fed => /\ ~PlotInRange(state)
                      /\ ChickenInRange(state)
                      /\ state.player.watermelons >= 1
            /\ (/\ ~PlotInRange(state)
                /\ ChickenInRange(state)
                /\ state.player.watermelons >= 1)
                  => /\ fed
                     /\ acted.player.watermelons = state.player.watermelons - 1
                     /\ acted.farm.plots = state.farm.plots
            /\ ~PlotInRange(state) /\ ~ChickenInRange(state) => acted = state

\* C26 witness: the player stands at a plot planted a while ago and still
\* growing, holding a watermelon, with a hungry chicken on the farm: the
\* interaction does nothing.
C26_Witness ==
    /\ state.currentArea = "farm"
    /\ PlotInRange(state)
    /\ NearbyPlot(state)[1].planted
    /\ NearbyPlot(state)[1].growthProgress < PROGRESS_ONE
    /\ NearbyPlot(state)[1].plantedAt >= T0
    /\ now > NearbyPlot(state)[1].plantedAt
    /\ state.player.watermelons = 1
    /\ state.farm.chickens[1].fedUntil = 0
    /\ handleInteraction(state, now) = state

\* C27: a collected forest seed stays unavailable until a frame whose clock
\* reading is at or after its deadline (collection time + 15000 ms) and
\* becomes available at the first such frame; as frames keep coming every
\* collected seed becomes available again; a seed that is not collected is
\* not changed by a frame.
C27_RespawnAtDeadline ==
    /\ [][\A i \in DOMAIN state.forest.seeds :
             LET seed == state.forest.seeds[i]
                 after == state'.forest.seeds[i]
                 frame == now' > now
             IN  /\ seed.collected /\ after.collected =>
                       /\ after = seed
                       /\ frame => now' < seed.respawnTime
                 /\ seed.collected /\ ~after.collected =>
                       /\ frame
                       /\ now' >= seed.respawnTime
                       /\ [after EXCEPT !.type = seed.type] = [seed EXCEPT !.collected = FALSE]
                 /\ seed.collected /\ frame /\ now' >= seed.respawnTime => ~after.collected
                 /\ ~seed.collected /\ after.collected =>
                       /\ ~frame
                       /\ after.respawnTime = now + 15000
                 /\ ~seed.collected /\ frame => after = seed
      ]_vars
    /\ \A i \in DOMAIN BUSH_SITES :
          state.forest.seeds[i].collected ~> ~state.forest.seeds[i].collected

\* C27 witness: seed 1 was collected at T0 and is still waiting after a
\* frame that came before its deadline, while seed 2 has never been collected.
C27_Witness ==
    /\ state.forest.seeds[1].collected
    /\ state.forest.seeds[1].respawnTime = T0 + 15000
    /\ now = T0 + STEP_MS
    /\ state.lastUpdate = now
    /\ ~state.forest.seeds[2].collected
    /\ state.forest.seeds[2].respawnTime = 0

\* C28: collectSeed marks at most one seed per call: the first in stored
\* order that is not collected, has a type in unlockedSeeds and lies within
\* 40 units of the player; a seed of a locked type or already collected is
\* never marked; when no seed qualifies the forest is unchanged and null is
\* returned.
C28_FirstQualifyingSeed ==
    state.currentArea = "forest" =>
        LET got == collectSeed(state.forest, state.player.x, state.player.y,
                               state.unlockedSeeds, now)
            seeds == state.forest.seeds
            qualifying == {i \in DOMAIN seeds : Available(state, seeds[i])}
            marked == {i \in DOMAIN seeds : got.forest.seeds[i] # seeds[i]}
        IN  /\ Cardinality(marked) <= 1
            /\ marked \subseteq qualifying
            /\ \A i \in marked :
                  /\ \A k \in qualifying : i <= k
                  /\ got.forest.seeds[i] = Taken(seeds[i], now)
                  /\ got.collectedSeed = Some(seeds[i])
            /\ qualifying # {} => marked # {}
            /\ qualifying = {} => got.forest = state.forest /\ got.collectedSeed = Null
            /\ [got.forest EXCEPT !.seeds = seeds] = state.forest

\* C28 witness: the first seed in range has come back as gold, which is
\* locked, and the interaction at this clock reading took the next basic seed
\* in range instead; nothing is left to collect.
C28_Witness ==
    /\ state.currentArea = "forest"
    /\ ~state.forest.seeds[1].collected
    /\ state.forest.seeds[1].type = "gold"
    /\ state.unlockedSeeds = << "basic" >>
    /\ state.forest.seeds[3].collected
    /\ state.forest.seeds[3].respawnTime = now + 15000
    /\ collectSeed(state.forest, state.player.x, state.player.y, state.unlockedSeeds, now)
          = [forest |-> state.forest, collectedSeed |-> Null]

\* the width and the height of the area the player is in, in world units
AreaWidth(area) == IF area = "forest" THEN FOREST_WIDTH ELSE FARM_WIDTH

AreaHeight(area) == IF area = "forest" THEN FOREST_HEIGHT ELSE FARM_HEIGHT

\* C29: in every state reached by frames and area switches the player's
\* position lies within [PLAYER_SIZE, width - PLAYER_SIZE] x
\* [PLAYER_SIZE, height - PLAYER_SIZE] of the current area, also in the farm
\* right after a switch from a forest position outside the farm's bounds.
C29_PositionWithinArea ==
    /\ PLAYER_SIZE * POS_SCALE <= state.player.x
    /\ state.player.x <= (AreaWidth(state.currentArea) - PLAYER_SIZE) * POS_SCALE
    /\ PLAYER_SIZE * POS_SCALE <= state.player.y
    /\ state.player.y <= (AreaHeight(state.currentArea) - PLAYER_SIZE) * POS_SCALE

\* C29 witness: a frame with "s" and "d" held has moved the player from
\* (770, 570) into the lower right corner of the farm, where both coordinates
\* were clamped.
C29_Witness ==
    /\ state.currentArea = "farm"
    /\ state.lastUpdate > T0
    /\ state.player.x = (FARM_WIDTH - PLAYER_SIZE) * POS_SCALE
    /\ state.player.y = (FARM_HEIGHT - PLAYER_SIZE) * POS_SCALE

\* The player's circle at (x, y), of radius PLAYER_SIZE / 2, overlaps the
\* trunk of a tree of the forest f: the centres are closer than the two radii
\* together (coordinates in position units, distances compared on squares).
OverlapsTrunk(f, x, y) ==
    \E i \in DOMAIN f.trees :
        LET cx == f.trees[i].x
            cy == f.trees[i].y + 20 * POS_SCALE
            both == (PLAYER_SIZE \div 2 + 10 + f.trees[i].size * 5) * POS_SCALE
        IN  (cx - x) * (cx - x) + (cy - y) * (cy - y) < both * both

\* the position the move with these keys is aimed at: where it ends in a
\* forest without trees
Attempted(s, keys, deltaTime) ==
    updatePlayerMovement([s EXCEPT !.forest.trees = << >>], keys, deltaTime).player

\* the lengths of a frame explored, in ms
FRAME_DELTAS == {0, STEP_MS, MAX_DELTA_TIME}

\* C30: in the forest, from a position that overlaps no trunk, a move ends
\* on no trunk whatever keys are held: it ends at the attempted position if
\* that is free, else at the horizontal-only position if that is free, else
\* at the vertical-only position if that is free, else where it started.
\* The frames taken start on no trunk, so that no state in the forest is on one.
C30_NeverOntoTrunk ==
    /\ state.currentArea = "forest"
          => ~OverlapsTrunk(state.forest, state.player.x, state.player.y)
    /\ (state.currentArea = "forest"
          /\ ~OverlapsTrunk(state.forest, state.player.x, state.player.y))
       => \A keys \in SUBSET {"w", "a", "s", "d"}, deltaTime \in FRAME_DELTAS :
             LET old == state.player
                 att == Attempted(state, keys, deltaTime)
                 end == updatePlayerMovement(state, keys, deltaTime).player
                 free(x, y) == ~OverlapsTrunk(state.forest, x, y)
             IN  /\ free(end.x, end.y)
                 /\ << end.x, end.y >> =
                       IF free(att.x, att.y) THEN << att.x, att.y >>
                       ELSE IF free(att.x, old.y) THEN << att.x, old.y >>
                       ELSE IF free(old.x, att.y) THEN << old.x, att.y >>
                       ELSE << old.x, old.y >>

\* C30 witness: a frame with "s" and "d" held has moved the player from
\* (770, 480), left of the trunk at (800, 480), straight down: the diagonal
\* and the horizontal-only move both end on the trunk, the vertical-only
\* move does not.
C30_Witness ==
    /\ state.currentArea = "forest"
    /\ state.lastUpdate > T0
    /\ state.player.x = 770 * POS_SCALE
    /\ state.player.y = 480 * POS_SCALE + Displacement(1, TRUE, 15 * POS_SCALE)
    /\ ~OverlapsTrunk(state.forest, state.player.x, state.player.y)

\* the steps that are frames: the only steps on which the clock moves
IsFrame == now' # now

\* C31: whatever area the player is in, a frame grows the plots, lets the fed
\* chickens lay and respawns the seeds that are due; it adds the eggs and the
\* coins of the frame to player.eggs, player.coins and totalCoinsEarned,
\* stamps lastUpdate, and leaves the seed inventory, the watermelons, the
\* upgrades, unlockedSeeds, currentArea and zoom as they were.
C31_FrameUpdatesBothAreas ==
    [][IsFrame =>
        LET farmUpdate == updateFarm(state.farm, state.upgrades,
                                     FrameDelta(perf', lastTime), now')
        IN  /\ state'.farm = farmUpdate.farm
            /\ \A i \in DOMAIN state.farm.plots :
                  (state.farm.plots[i].planted /\ now' > state.farm.plots[i].plantedAt
                      /\ state.farm.plots[i].growthProgress < PROGRESS_ONE)
                  => state'.farm.plots[i].growthProgress > state.farm.plots[i].growthProgress
            /\ \A i \in DOMAIN state.farm.chickens :
                  (now' < state.farm.chickens[i].fedUntil /\ lastTime # 0)
                  => state'.farm.chickens[i].eggsProduced > state.farm.chickens[i].eggsProduced
            /\ \A i \in DOMAIN state.forest.seeds :
                  state'.forest.seeds[i].collected
                     = (state.forest.seeds[i].collected
                          /\ state.forest.seeds[i].respawnTime > now')
            /\ state'.player.eggs = state.player.eggs + farmUpdate.eggsProduced
            /\ state'.player.coins = state.player.coins + farmUpdate.coinsEarned
            /\ state'.totalCoinsEarned = state.totalCoinsEarned + farmUpdate.coinsEarned
            /\ state'.lastUpdate = now'
            /\ state'.player.seeds = state.player.seeds
            /\ state'.player.watermelons = state.player.watermelons
            /\ state'.upgrades = state.upgrades
            /\ state'.unlockedSeeds = state.unlockedSeeds
            /\ state'.currentArea = state.currentArea
            /\ state'.zoom = state.zoom]_vars

\* C31 witness: the player is in the forest while plot 0 has grown past
\* its progress at planting and chicken 0, fed before the switch, has laid.
C31_Witness ==
    /\ state.currentArea = "forest"
    /\ state.lastUpdate > T0
    /\ state.farm.plots[1].planted
    /\ state.farm.plots[1].growthProgress > 0
    /\ state.farm.chickens[1].eggsProduced > 0
    /\ state.player.eggs > 0

\* the place of a tier in basic -> fat -> golden -> cosmic
TierRank(type) ==
    CASE type = "basic" -> 1 [] type = "fat" -> 2 [] type = "golden" -> 3 [] type = "cosmic" -> 4

\* the chickens whose tier changes on the step
Retiered == {i \in DOMAIN state.farm.chickens :
                state'.farm.chickens[i].type # state.farm.chickens[i].type}

\* C32: no step removes a chicken or lowers a tier, and a cosmic chicken keeps
\* its tier; a step that changes a tier changes the tier of one chicken, by
\* one place forward, takes the upgradeCost of the new tier from the coins,
\* and changes nothing else of that chicken (fedUntil, eggsProduced) and no
\* other chicken.
C32_TierOneStepForward ==
    [][/\ Len(state'.farm.chickens) >= Len(state.farm.chickens)
       /\ \A i \in DOMAIN state.farm.chickens :
             /\ TierRank(state'.farm.chickens[i].type) >= TierRank(state.farm.chickens[i].type)
             /\ state.farm.chickens[i].type = "cosmic"
                   => state'.farm.chickens[i].type = "cosmic"
       /\ Retiered # {}
             => \E i \in Retiered :
                   /\ Retiered = {i}
                   /\ TierRank(state'.farm.chickens[i].type)
                         = TierRank(state.farm.chickens[i].type) + 1
                   /\ state'.player.coins
                         = state.player.coins
                             - CHICKEN_CONFIGS[state'.farm.chickens[i].type].upgradeCost * COIN_SCALE
                   /\ state'.farm.chickens =
                         [state.farm.chickens EXCEPT ![i].type = state'.farm.chickens[i].type]
                   /\ state'.farm.chickens[i].fedUntil = state.farm.chickens[i].fedUntil
                   /\ state'.farm.chickens[i].eggsProduced = state.farm.chickens[i].eggsProduced
      ]_vars

\* C32 witness: chicken 0, fed and with eggs laid, has been upgraded from
\* golden to cosmic for 5000 coins beside a second chicken that is still basic.
C32_Witness ==
    /\ Len(state.farm.chickens) >= 2
    /\ state.farm.chickens[1].type = "cosmic"
    /\ state.farm.chickens[1].fedUntil > now
    /\ state.farm.chickens[1].eggsProduced > 0
    /\ state.farm.chickens[2].type = "basic"
    /\ state.player.coins < 2000 * COIN_SCALE

\* the clock readings the two computations are compared at: now, one coarse
\* step later, and more than 24 hours later
COMPARE_AFTER == {0, COARSE_MS, MAX_OFFLINE_TIME + 3600 * 1000}

\* the two computations give the same plots for this farm
SamePlots(farm, upgrades, lastUpdate) ==
    \A after \in COMPARE_AFTER, deltaTime \in FRAME_DELTAS :
        LET offline == calculateOfflineProgress(farm, upgrades, lastUpdate, now + after)
            live == updateFarm(farm, upgrades, deltaTime, now + after)
        IN  /\ offline.farm.plots = live.farm.plots
            /\ \A i \in DOMAIN farm.plots :
                  (farm.plots[i].planted /\ farm.plots[i].plantedAt # 0
                      /\ now + after - farm.plots[i].plantedAt
                            >= SEED_CONFIGS[farm.plots[i].seedType].growTime * 1000)
                  => offline.farm.plots[i].growthProgress = PROGRESS_ONE

\* C33: for the farm in memory and for the farm in storage, with the same
\* upgrades and at the same clock reading, calculateOfflineProgress and
\* updateFarm give the same plots, also more than 24 hours after lastUpdate,
\* where a plot planted a grow time ago or longer is fully grown.
C33_OfflineGrowthAsLive ==
    /\ SamePlots(state.farm, state.upgrades, state.lastUpdate)
    /\ (saved # Null /\ loadGame(saved, now) # Null)
          => SamePlots(saved[1].value.farm, saved[1].value.upgrades, saved[1].value.lastUpdate)

\* C33 witness: the game was loaded more than 24 hours after the save of a
\* growing plot, which the load has brought to full growth; a frame at the
\* same clock reading gives the same plot.
C33_Witness ==
    /\ saved # Null
    /\ loadGame(saved, now) # Null
    /\ saved[1].value.farm.plots[1].planted
    /\ saved[1].value.farm.plots[1].growthProgress < PROGRESS_ONE
    /\ now > saved[1].value.lastUpdate + MAX_OFFLINE_TIME
    /\ state.farm.plots[1].planted
    /\ state.farm.plots[1].growthProgress = PROGRESS_ONE
    /\ state.farm.plots = updateFarm(saved[1].value.farm, saved[1].value.upgrades,
                                     MAX_DELTA_TIME, now).farm.plots

\* C34: for the document in storage, at the clock reading of the state,
\* calculateOfflineProgress returns no negative eggsProduced or coinsEarned
\* and lowers no chicken's eggsProduced, and loadGame lowers neither
\* player.eggs nor player.coins, also when the stored lastUpdate is later
\* than the clock reading.
C34_OfflineNeverNegative ==
    (saved # Null /\ loadGame(saved, now) # Null)
    => LET stored == saved[1].value
           offline == calculateOfflineProgress(stored.farm, stored.upgrades,
                                               stored.lastUpdate, now)
           loaded == loadGame(saved, now)[1]
       IN  /\ offline.eggsProduced >= 0
           /\ offline.coinsEarned >= 0
           /\ \A i \in DOMAIN stored.farm.chickens :
                 offline.farm.chickens[i].eggsProduced >= stored.farm.chickens[i].eggsProduced
           /\ loaded.player.eggs >= stored.player.eggs
           /\ loaded.player.coins >= stored.player.coins

\* C35: after any frames, saves and loads, totalCoinsEarned is the sum of the
\* coins credited for eggs, by frames and by the catch-up at load alike.  The
\* games start with 50 coins and nothing earned, and nothing is bought or
\* sold in them, so that the coins credited are the coins above 50.
C35_LifetimeCoinsCountOffline ==
    state.totalCoinsEarned = state.player.coins - 50 * COIN_SCALE

\* the seeds held, of all types together
SeedsHeld(s) ==
    s.player.seeds["basic"] + s.player.seeds["silver"] + s.player.seeds["gold"]
        + s.player.seeds["crystal"]

\* C36: the hint of a state agrees with what handleInteraction does in it.
\* After `Press E to collect <type> seed` the inventory has one more seed of
\* that type; after `Press E to plant` a seed is planted, after `Press E to
\* harvest` watermelons are gained, after `Press E to feed` a watermelon
\* feeds a chicken; after any other hint no seed and no watermelon is used.
C36_HintAgreesWithInteraction ==
    LET hint == getInteractionHint(state, now)
        after == handleInteraction(state, now)
    IN  hint # Null =>
          CASE hint[1].text = "Press E to collect seed" ->
                  after.player.seeds =
                      [state.player.seeds EXCEPT ![hint[1].seedType] = @ + 1]
            [] hint[1].text = "Press E to plant" ->
                  /\ SeedsHeld(after) = SeedsHeld(state) - 1
                  /\ \E i \in DOMAIN state.farm.plots :
                        ~state.farm.plots[i].planted /\ after.farm.plots[i].planted
            [] hint[1].text = "Press E to harvest" ->
                  /\ after.player.watermelons > state.player.watermelons
                  /\ \E i \in DOMAIN state.farm.plots :
                        state.farm.plots[i].planted /\ ~after.farm.plots[i].planted
            [] hint[1].text = "Press E to feed" ->
                  /\ after.player.watermelons = state.player.watermelons - 1
                  /\ \E i \in DOMAIN state.farm.chickens :
                        after.farm.chickens[i].fedUntil > now
            [] OTHER ->
                  /\ after.player.seeds = state.player.seeds
                  /\ after.player.watermelons = state.player.watermelons

\* the document is one that saveGame writes
WrittenBySaveGame(document) ==
    document.format = "json" /\ HasGameFields(document.value)

\* C37: export, import and load restore the game.  The file exportSave
\* writes from a save of saveGame is accepted by importSave, and after a file
\* accepted by importSave the next loadGame gives a state (with the farm,
\* the player and the upgrades of the file), not null.
C37_ExportImportLoadRestores ==
    /\ IF exportSave(saved) # Null
       THEN WrittenBySaveGame(exportSave(saved)[1])
               => importSave(exportSave(saved)[1], Some(state), saved, FALSE).reload
       ELSE TRUE
    /\ \A kind \in IMPORT_KINDS :
          IF kind = "exported" /\ saved = Null THEN TRUE
          ELSE LET done == importSave(ImportFile(kind), Some(state), saved, FALSE)
               IN  done.reload => loadGame(done.storage, now) # Null

\* storage holds a document that importSave accepts
HoldsImported(storage) == IF storage = Null THEN FALSE ELSE StartsWithWF1(storage[1])

\* C38: from the import that was accepted until the page reloads, storage
\* holds the imported document: no timer, cleanup, key or frame in between
\* writes the state of the old page over it.
C38_ImportedBlobKept ==
    [][/\ skipSaveRef' => HoldsImported(saved')
       /\ (skipSaveRef /\ skipSaveRef') => saved' = saved]_vars

\* C38 witness: an import was accepted over the save of the running game,
\* and frames have come since while the reload has not yet taken place.
C38_Witness ==
    /\ skipSaveRef
    /\ gameStateNull
    /\ HoldsImported(saved)
    /\ now > T0
    /\ lastTime = perf
    /\ state.player.watermelons = 0

\* feedDuration * chickenHunger * 1000 for the chicken, in ms; chickenHunger
\* is 1 and 0.2 more with each purchase
FeedMs(chicken, upgrades) ==
    (CHICKEN_CONFIGS[chicken.type].feedDuration * 1000
        * (100 + 20 * upgrades["chickenHunger"])) \div 100

\* C39: feeding does not stack.  With a clock that does not go back no step
\* lowers a chicken's fedUntil; a step that changes it is a feeding, which
\* sets it to now + feedDuration * chickenHunger * 1000 and takes one
\* watermelon; and pressing E at a chicken that is still fed, with a
\* watermelon in hand, does the same.
C39_FeedingDoesNotStack ==
    [][/\ \A i \in DOMAIN state.farm.chickens :
             /\ state'.farm.chickens[i].fedUntil >= state.farm.chickens[i].fedUntil
             /\ state'.farm.chickens[i].fedUntil # state.farm.chickens[i].fedUntil
                   => /\ state'.farm.chickens[i].fedUntil
                            = now + FeedMs(state.farm.chickens[i], state.upgrades)
                      /\ state'.player.watermelons = state.player.watermelons - 1
                      /\ now' = now
       /\ LET near == getNearbyChicken(state.farm, state.player.x, state.player.y)
              after == handleInteraction(state, now)
          IN  (/\ state.currentArea = "farm"
               /\ getNearbyPlot(state.farm, state.player.x, state.player.y) = Null
               /\ near # Null
               /\ state.player.watermelons > 0)
              => /\ after.player.watermelons = state.player.watermelons - 1
                 /\ \A i \in DOMAIN state.farm.chickens :
                       after.farm.chickens[i].fedUntil =
                          IF state.farm.chickens[i].id = near[1].id
                          THEN now + FeedMs(state.farm.chickens[i], state.upgrades)
                          ELSE state.farm.chickens[i].fedUntil
      ]_vars

\* C39 witness: chicken 0 was fed a second time while it was still fed, one
\* coarse step after the first feeding: both watermelons are gone and
\* fedUntil is one feed time after the second feeding, not two after the first.
C39_Witness ==
    /\ state.player.watermelons = 0
    /\ state.farm.chickens[1].type = "basic"
    /\ state.upgrades["chickenHunger"] = 0
    /\ state.farm.chickens[1].eggsProduced > 0
    /\ state.farm.chickens[1].fedUntil = T0 + COARSE_MS + 60000
    /\ now >= T0 + COARSE_MS

\* the id of every entity of the list is its index, counted from 0
IdsAreIndices(entities) == \A i \in DOMAIN entities : entities[i].id = i - 1

\* the indices at which two lists of the same length differ
Changed(before, after) == {i \in DOMAIN before : after[i] # before[i]}

\* C40: the ids of the plots are their indices in the list, hence pairwise
\* distinct, and so are the ids of the chickens; no step removes a plot or a
\* chicken; and a planting, a harvest, a feeding or a tier upgrade addressed
\* by id changes the entity with that id and no other.
C40_IdsAreIndices ==
    [][/\ IdsAreIndices(state.farm.plots) /\ IdsAreIndices(state'.farm.plots)
       /\ IdsAreIndices(state.farm.chickens) /\ IdsAreIndices(state'.farm.chickens)
       /\ \A i, j \in DOMAIN state.farm.chickens :
             i # j => state.farm.chickens[i].id # state.farm.chickens[j].id
       /\ \A i, j \in DOMAIN state.farm.plots :
             i # j => state.farm.plots[i].id # state.farm.plots[j].id
       /\ Len(state'.farm.plots) >= Len(state.farm.plots)
       /\ Len(state'.farm.chickens) >= Len(state.farm.chickens)
       /\ \A i \in DOMAIN state.farm.plots :
             LET id == state.farm.plots[i].id
             IN  /\ Changed(state.farm.plots,
                            plantSeed(state.farm, id, "basic", now).plots)
                       = IF state.farm.plots[i].planted THEN {} ELSE {i}
                 /\ Changed(state.farm.plots, harvestPlot(state.farm, id).farm.plots)
                       = IF Harvestable(state.farm.plots[i], id) THEN {i} ELSE {}
       /\ \A i \in DOMAIN state.farm.chickens :
             LET id == state.farm.chickens[i].id
             IN  /\ Changed(state.farm.chickens,
                            feedChicken(state.farm, id, state.upgrades, now).farm.chickens)
                       \subseteq {i}
                 /\ feedChicken(state.farm, id, state.upgrades, now).farm.chickens[i].fedUntil
                       > now
                 /\ Changed(state.farm.chickens, upgradeChicken(state.farm, id).farm.chickens)
                       = IF state.farm.chickens[i].type = "cosmic" THEN {} ELSE {i}
      ]_vars

\* C40 witness: a second chicken was bought and got the id 1; chicken 0 was
\* fed by its id and is laying, and chicken 1 was not touched.
C40_Witness ==
    /\ Len(state.farm.chickens) = 2
    /\ state.farm.chickens[2].id = 1
    /\ state.farm.chickens[1].fedUntil > now
    /\ state.farm.chickens[1].eggsProduced > 0
    /\ state.farm.chickens[2].fedUntil = 0
    /\ state.farm.chickens[2].eggsProduced = 0

====
